---- MODULE Spec2Model ----
(***************************************************************************)
(* Disclosure-page discovery (app/utils/terms_and_condition_utils.py):     *)
(* the retrying fetcher, the link extractor, the relevance scorer, the      *)
(* fallback prober and check_terms_exist, which composes them.             *)
(*                                                                         *)
(* Text is modelled character by character: a string is a sequence of      *)
(* one-character strings, so that `in`, lower(), startswith and urljoin    *)
(* are computed and not assumed.                                           *)
(***************************************************************************)
EXTENDS Integers, Sequences, FiniteSets, TLC

(***************************************************************************)
(* Bounds of the model                                                     *)
(***************************************************************************)
\* direct calls of the fetcher use retries in 0..MaxRetries
MaxRetries == 3
\* a page body holds at most MaxElems elements
MaxElems == 2
\* at most MaxHits of the probed paths answer 200 on the modelled server
MaxHits == 1

(***************************************************************************)
(* Program constants                                                       *)
(***************************************************************************)
\* default of the retries parameter of make_request_with_retry
DefaultRetries == 2

(***************************************************************************)
(* Strings                                                                 *)
(***************************************************************************)
LowerMap ==
  "A" :> "a" @@ "B" :> "b" @@ "C" :> "c" @@ "D" :> "d" @@ "E" :> "e" @@ "F" :> "f" @@ "G" :> "g" @@ "H" :> "h" @@ "I" :> "i" @@ "J" :> "j" @@ "K" :> "k" @@ "L" :> "l" @@ "M" :> "m" @@ "N" :> "n" @@ "O" :> "o" @@ "P" :> "p" @@ "Q" :> "q" @@ "R" :> "r" @@ "S" :> "s" @@ "T" :> "t" @@ "U" :> "u" @@ "V" :> "v" @@ "W" :> "w" @@ "X" :> "x" @@ "Y" :> "y" @@ "Z" :> "z" @@ "É" :> "é"

\* str.lower()
Lower(s) == [i \in 1..Len(s) |-> IF s[i] \in DOMAIN LowerMap THEN LowerMap[s[i]] ELSE s[i]]

\* `p in s` for strings
Contains(p, s) ==
  \E i \in 0..(Len(s) - Len(p)) : SubSeq(s, i + 1, i + Len(p)) = p

\* s.startswith(p)
StartsWith(s, p) == Len(s) >= Len(p) /\ SubSeq(s, 1, Len(p)) = p

\* index of the first character of s at or after position i that is in cs, Len(s)+1 if none
RECURSIVE FirstOf(_, _, _)
FirstOf(s, cs, i) ==
  IF i > Len(s) THEN Len(s) + 1
  ELSE IF s[i] \in cs THEN i
  ELSE FirstOf(s, cs, i + 1)

\* index of the last "/" of s, 0 if none
RECURSIVE LastSlash(_, _)
LastSlash(s, i) ==
  IF i = 0 THEN 0 ELSE IF s[i] = "/" THEN i ELSE LastSlash(s, i - 1)

S_http == <<"h","t","t","p",":","/","/">>
S_https == <<"h","t","t","p","s",":","/","/">>
S_slashes == <<"/","/">>

(***************************************************************************)
(* urllib.parse                                                            *)
(***************************************************************************)
\* length of the scheme prefix "xyz:" of u, 0 when u has no scheme
SchemeLen(u) ==
  LET c == FirstOf(u, {":", "/", "?", "#"}, 1)
  IN  IF c <= Len(u) /\ c > 1 /\ u[c] = ":" THEN c ELSE 0

\* u without its scheme prefix
AfterScheme(u) == SubSeq(u, SchemeLen(u) + 1, Len(u))

\* urlparse(u).netloc
Netloc(u) ==
  LET r == AfterScheme(u)
  IN  IF StartsWith(r, S_slashes)
      THEN SubSeq(r, 3, FirstOf(r, {"/", "?", "#"}, 3) - 1)
      ELSE <<>>

\* urlparse(u).path (query and fragment are not split off: no modelled URL has one)
UrlPath(u) ==
  LET r == AfterScheme(u)
  IN  IF StartsWith(r, S_slashes)
      THEN SubSeq(r, FirstOf(r, {"/", "?", "#"}, 3), Len(r))
      ELSE r

\* urlsplit raises ValueError("Invalid IPv6 URL") on an unbalanced bracket in the netloc
UrlSplitRaises(u) ==
  LET n == Netloc(u)
  IN  (Contains(<<"[">>, n) /\ ~Contains(<<"]">>, n))
      \/ (Contains(<<"]">>, n) /\ ~Contains(<<"[">>, n))

\* scheme://netloc of u
Origin(u) == SubSeq(u, 1, SchemeLen(u)) \o S_slashes \o Netloc(u)

\* urljoin(base, href), for a base with an http(s) scheme and a non-empty href
\* without "." segments, query or fragment
urljoin(base, href) ==
  IF SchemeLen(href) > 0 THEN href
  ELSE IF StartsWith(href, S_slashes) THEN SubSeq(base, 1, SchemeLen(base)) \o href
  ELSE IF StartsWith(href, <<"/">>) THEN Origin(base) \o href
  ELSE LET p == UrlPath(base)
           d == SubSeq(p, 1, LastSlash(p, Len(p)))
       IN  Origin(base) \o (IF d = <<>> THEN <<"/">> ELSE d) \o href

(***************************************************************************)
(* Keyword lists of the extractor, the scorer and the prober               *)
(***************************************************************************)
terms_patterns ==
  << <<"t","e","r","m","s">>,
     <<"c","o","n","d","i","t","i","o","n">>,
     <<"p","r","i","v","a","c","y">>,
     <<"p","o","l","i","c","y">>,
     <<"l","e","g","a","l">>,
     <<"a","g","r","e","e","m","e","n","t">>,
     <<"d","o","n","n","é","e","s">>,
     <<"c","o","n","f","i","d","e","n","t","i","a","l","i","t","é">>,
     <<"m","e","n","t","i","o","n","s">>,
     <<"c","o","o","k","i","e","s">>,
     <<"p","o","l","i","t","i","q","u","e">>,
     <<"c","g","v">>,
     <<"c","g","u">> >>

high_priority ==
  << <<"t","e","r","m","s"," ","o","f"," ","s","e","r","v","i","c","e">>,
     <<"t","e","r","m","s"," ","a","n","d"," ","c","o","n","d","i","t","i","o","n","s">>,
     <<"t","e","r","m","s"," ","&"," ","c","o","n","d","i","t","i","o","n","s">>,
     <<"p","r","i","v","a","c","y"," ","p","o","l","i","c","y">>,
     <<"p","r","i","v","a","c","y"," ","n","o","t","i","c","e">>,
     <<"d","a","t","a"," ","p","o","l","i","c","y">>,
     <<"c","o","o","k","i","e"," ","p","o","l","i","c","y">>,
     <<"c","o","o","k","i","e","s"," ","p","o","l","i","c","y">> >>

medium_priority ==
  << <<"t","e","r","m","s">>,
     <<"c","o","n","d","i","t","i","o","n","s">>,
     <<"p","r","i","v","a","c","y">>,
     <<"l","e","g","a","l">>,
     <<"p","o","l","i","c","y">>,
     <<"a","g","r","e","e","m","e","n","t">>,
     <<"c","o","o","k","i","e","s">>,
     <<"d","a","t","a"," ","p","r","o","t","e","c","t","i","o","n">> >>

french_high ==
  << <<"c","o","n","d","i","t","i","o","n","s"," ","g","é","n","é","r","a","l","e","s">>,
     <<"c","o","n","d","i","t","i","o","n","s"," ","d","'","u","t","i","l","i","s","a","t","i","o","n">>,
     <<"m","e","n","t","i","o","n","s"," ","l","é","g","a","l","e","s">>,
     <<"p","o","l","i","t","i","q","u","e"," ","d","e"," ","c","o","n","f","i","d","e","n","t","i","a","l","i","t","é">>,
     <<"p","o","l","i","t","i","q","u","e"," ","d","e","s"," ","d","o","n","n","é","e","s">>,
     <<"p","o","l","i","t","i","q","u","e"," ","d","e","s"," ","c","o","o","k","i","e","s">>,
     <<"g","e","s","t","i","o","n"," ","d","e","s"," ","c","o","o","k","i","e","s">> >>

french_medium ==
  << <<"c","o","n","d","i","t","i","o","n","s">>,
     <<"c","o","n","f","i","d","e","n","t","i","a","l","i","t","é">>,
     <<"d","o","n","n","é","e","s">>,
     <<"c","o","o","k","i","e","s">>,
     <<"m","e","n","t","i","o","n","s">>,
     <<"l","é","g","a","l","e","s">>,
     <<"p","o","l","i","t","i","q","u","e">>,
     <<"c","g","v">>,
     <<"c","g","u">> >>

penalty_patterns ==
  << <<"c","o","n","t","a","c","t">>,
     <<"a","b","o","u","t">>,
     <<"h","e","l","p">>,
     <<"s","u","p","p","o","r","t">>,
     <<"n","e","w","s">>,
     <<"b","l","o","g">>,
     <<"c","a","r","e","e","r","s">>,
     <<"j","o","b","s">>,
     <<"p","r","e","s","s">>,
     <<"m","e","d","i","a">>,
     <<"i","n","v","e","s","t","o","r">> >>

footer_indicators ==
  << <<"f","o","o","t","e","r">>,
     <<"l","e","g","a","l">>,
     <<"b","o","t","t","o","m">> >>

common_patterns ==
  << <<"/","t","e","r","m","s">>,
     <<"/","t","e","r","m","s","-","o","f","-","s","e","r","v","i","c","e">>,
     <<"/","t","e","r","m","s","-","a","n","d","-","c","o","n","d","i","t","i","o","n","s">>,
     <<"/","t","o","s">>,
     <<"/","p","r","i","v","a","c","y">>,
     <<"/","p","r","i","v","a","c","y","-","p","o","l","i","c","y">>,
     <<"/","p","r","i","v","a","c","y","-","n","o","t","i","c","e">>,
     <<"/","l","e","g","a","l">>,
     <<"/","l","e","g","a","l","-","n","o","t","i","c","e">>,
     <<"/","l","e","g","a","l","-","i","n","f","o","r","m","a","t","i","o","n">>,
     <<"/","c","o","o","k","i","e","s">>,
     <<"/","c","o","o","k","i","e","-","p","o","l","i","c","y">>,
     <<"/","c","o","o","k","i","e","-","n","o","t","i","c","e">>,
     <<"/","m","e","n","t","i","o","n","s","-","l","e","g","a","l","e","s">>,
     <<"/","p","o","l","i","t","i","q","u","e","-","c","o","n","f","i","d","e","n","t","i","a","l","i","t","e">>,
     <<"/","p","o","l","i","t","i","q","u","e","-","c","o","o","k","i","e","s">>,
     <<"/","c","o","n","d","i","t","i","o","n","s","-","g","e","n","e","r","a","l","e","s">>,
     <<"/","c","o","n","d","i","t","i","o","n","s","-","u","t","i","l","i","s","a","t","i","o","n">>,
     <<"/","c","g","v">>,
     <<"/","c","g","u">>,
     <<"/","p","o","l","i","t","i","q","u","e","-","d","o","n","n","e","e","s">>,
     <<"/","c","o","n","f","i","d","e","n","t","i","a","l","i","t","e">>,
     <<"/","d","o","n","n","e","e","s","-","p","e","r","s","o","n","n","e","l","l","e","s">>,
     <<"/","l","e","g","a","l","/","t","e","r","m","s">>,
     <<"/","l","e","g","a","l","/","p","r","i","v","a","c","y">>,
     <<"/","l","e","g","a","l","/","c","o","o","k","i","e","s">>,
     <<"/","a","c","c","u","e","i","l","/","p","o","l","i","t","i","q","u","e","-","c","o","o","k","i","e","s">>,
     <<"/","a","c","c","u","e","i","l","/","m","e","n","t","i","o","n","s","-","l","e","g","a","l","e","s">>,
     <<"/","f","r","/","l","e","g","a","l">>,
     <<"/","f","r","/","p","r","i","v","a","c","y">>,
     <<"/","f","r","/","m","e","n","t","i","o","n","s","-","l","e","g","a","l","e","s">> >>

P_terms == <<"/","t","e","r","m","s">>
P_privacy == <<"/","p","r","i","v","a","c","y">>
P_legal == <<"/","l","e","g","a","l">>
P_policy == <<"/","p","o","l","i","c","y">>
P_cookies == <<"/","c","o","o","k","i","e","s">>

S_privacy == <<"p","r","i","v","a","c","y">>
S_confidentialite == <<"c","o","n","f","i","d","e","n","t","i","a","l","i","t","e">>
S_cookie == <<"c","o","o","k","i","e">>
S_mention == <<"m","e","n","t","i","o","n">>
S_terms == <<"t","e","r","m","s">>
S_condition == <<"c","o","n","d","i","t","i","o","n">>

T_PrivacyPolicy == <<"P","r","i","v","a","c","y"," ","P","o","l","i","c","y">>
T_CookiePolicy == <<"C","o","o","k","i","e"," ","P","o","l","i","c","y">>
T_MentionsLegales == <<"M","e","n","t","i","o","n","s"," ","L","é","g","a","l","e","s">>
T_TermsConditions == <<"T","e","r","m","s"," ","&"," ","C","o","n","d","i","t","i","o","n","s">>
T_LegalInformation == <<"L","e","g","a","l"," ","I","n","f","o","r","m","a","t","i","o","n">>

(***************************************************************************)
(* The modelled web: the site under analysis and what its pages hold       *)
(***************************************************************************)
BaseUrl == <<"h","t","t","p","s",":","/","/","a",".","c","o","m">>
LoginUrl == <<"h","t","t","p","s",":","/","/","a",".","c","o","m","/","l","o","g","i","n">>

\* elements a page body is made of
ElemPool ==
  {
     [tag |-> "a", has_href |-> TRUE, href |-> <<"/","p","r","i","v","a","c","y","-","p","o","l","i","c","y">>, text |-> <<"P","r","i","v","a","c","y"," ","P","o","l","i","c","y">>],
     [tag |-> "a", has_href |-> TRUE, href |-> <<"/","c","a","r","e","e","r","s">>, text |-> <<"C","a","r","e","e","r","s">>],
     [tag |-> "a", has_href |-> TRUE, href |-> <<"h","t","t","p","s",":","/","/","b",".","o","r","g","/","p","r","i","v","a","c","y">>, text |-> <<"P","r","i","v","a","c","y">>],
     [tag |-> "a", has_href |-> TRUE, href |-> <<"/","p","r","i","v","a","c","y">>, text |-> <<"P","r","i","v","a","c","y">>],
     [tag |-> "a", has_href |-> TRUE, href |-> <<"/","c","o","n","d","i","t","i","o","n">>, text |-> <<"C","o","n","d","i","t","i","o","n">>],
     [tag |-> "a", has_href |-> TRUE, href |-> <<"h","t","t","p",":","/","/","[">>, text |-> <<"t","e","r","m","s">>],
     [tag |-> "a", has_href |-> TRUE, href |-> <<"m","a","i","l","t","o",":","l","e","g","a","l","@","a",".","c","o","m">>, text |-> <<"L","e","g","a","l">>],
     [tag |-> "a", has_href |-> TRUE, href |-> <<>>, text |-> <<"T","e","r","m","s">>],
     [tag |-> "p", has_href |-> FALSE, href |-> <<>>, text |-> <<"n","e","w","s">>]
  }

(***************************************************************************)
(* Failure messages                                                        *)
(***************************************************************************)
\* the absent error message
NoError == [category |-> "none", domain |-> <<>>, status |-> 0]

\* get_friendly_error_message(url, status_code, error_type): the message is
\* identified by its template, the domain and the status code it is filled with
get_friendly_error_message(url, status_code, error_type) ==
  LET domain == Lower(Netloc(url))
      msg(c, st) == [category |-> c, domain |-> domain, status |-> st]
  IN  IF error_type = "http" /\ status_code # 0
      THEN IF status_code = 403 THEN msg("access_denied", 0)
           ELSE IF status_code = 404 THEN msg("not_found", 0)
           ELSE IF status_code = 429 THEN msg("rate_limited", 0)
           ELSE IF status_code = 503 THEN msg("service_unavailable", 0)
           ELSE IF status_code \in {500, 502, 504} THEN msg("server_error", status_code)
           ELSE IF 400 <= status_code /\ status_code < 500 THEN msg("client_error", status_code)
           ELSE IF 500 <= status_code /\ status_code < 600 THEN msg("server_internal", status_code)
           ELSE msg("http_error", status_code)
      ELSE IF error_type = "timeout" THEN msg("timeout", 0)
      ELSE IF error_type = "connection" THEN msg("connection", 0)
      ELSE IF error_type = "ssl" THEN msg("ssl", 0)
      ELSE msg("generic", 0)

(***************************************************************************)
(* Relevance scorer                                                        *)
(***************************************************************************)
\* variant: a pattern counts when it is the whole of s
RECURSIVE MatchSum_exact(_, _, _)
MatchSum_exact(ps, s, w) ==
  IF ps = <<>> THEN 0
  ELSE (IF Head(ps) = s THEN w ELSE 0) + MatchSum_exact(Tail(ps), s, w)

\* sum of w over the patterns of ps that occur in s
RECURSIVE MatchSum(_, _, _)
MatchSum(ps, s, w) ==
  IF ps = <<>> THEN 0
  ELSE (IF Contains(Head(ps), s) THEN w ELSE 0) + MatchSum(Tail(ps), s, w)

\* variant: a pattern counts once for s and once for t
RECURSIVE EitherCount_perfield(_, _, _)
EitherCount_perfield(ps, s, t) ==
  IF ps = <<>> THEN 0
  ELSE (IF Contains(Head(ps), s) THEN 1 ELSE 0) + (IF Contains(Head(ps), t) THEN 1 ELSE 0)
       + EitherCount_perfield(Tail(ps), s, t)

\* number of patterns of ps that occur in s or in t
RECURSIVE EitherCount(_, _, _)
EitherCount(ps, s, t) ==
  IF ps = <<>> THEN 0
  ELSE (IF Contains(Head(ps), s) \/ Contains(Head(ps), t) THEN 1 ELSE 0)
       + EitherCount(Tail(ps), s, t)

Max(a, b) == IF a >= b THEN a ELSE b

\* the score before the final max(0, score)
RawScore(url, link_text) ==
  LET url_lower == Lower(url)
      text_lower == Lower(link_text)
      high == high_priority \o french_high
      medium == medium_priority \o french_medium
  IN  MatchSum(high, text_lower, 100) + MatchSum(high, url_lower, 80)
      + MatchSum(medium, text_lower, 50) + MatchSum(medium, url_lower, 30)
      + (IF Contains(P_terms, url_lower) \/ Contains(P_privacy, url_lower) THEN 40 ELSE 0)
      + (IF Contains(P_legal, url_lower) \/ Contains(P_policy, url_lower) THEN 30 ELSE 0)
      + (IF Contains(P_cookies, url_lower) THEN 25 ELSE 0)
      - 20 * EitherCount(penalty_patterns, text_lower, url_lower)
      + (IF \E i \in 1..Len(footer_indicators) : Contains(footer_indicators[i], text_lower)
         THEN 10 ELSE 0)

\* variant: the score is returned as it is
calculate_relevance_score_nofloor(url, link_text) == RawScore(url, link_text)

\* return max(0, score)
calculate_relevance_score(url, link_text) == Max(0, RawScore(url, link_text))

\* variant: an entry goes in front of the entries of equal score
RECURSIVE InsertDesc_unstable(_, _)
InsertDesc_unstable(x, sorted) ==
  IF sorted = <<>> THEN <<x>>
  ELSE IF x.score >= Head(sorted).score THEN <<x>> \o sorted
  ELSE <<Head(sorted)>> \o InsertDesc_unstable(x, Tail(sorted))

\* position at which (score, ...) enters a list sorted by descending score so
\* that it stays behind every entry of equal score (list.sort is stable)
RECURSIVE InsertDesc(_, _)
InsertDesc(x, sorted) ==
  IF sorted = <<>> THEN <<x>>
  ELSE IF x.score > Head(sorted).score THEN <<x>> \o sorted
  ELSE <<Head(sorted)>> \o InsertDesc(x, Tail(sorted))

\* scored_urls.sort(key=lambda x: x[0], reverse=True)
RECURSIVE SortByScoreDesc(_)
SortByScoreDesc(l) ==
  IF l = <<>> THEN <<>>
  ELSE InsertDesc(l[Len(l)], SortByScoreDesc(SubSeq(l, 1, Len(l) - 1)))

\* the (score, url, link_text) entries with a positive score, in input order
ScoredUrls(found_urls) ==
  LET all == [i \in 1..Len(found_urls) |->
                [score |-> calculate_relevance_score(found_urls[i].url, found_urls[i].text),
                 url |-> found_urls[i].url, text |-> found_urls[i].text]]
  IN  SelectSeq(all, LAMBDA e : e.score > 0)

\* variant: every positively scored url is returned, best first
select_most_relevant_urls_all(found_urls) ==
  LET sorted == SortByScoreDesc(ScoredUrls(found_urls))
  IN  [i \in 1..Len(sorted) |-> sorted[i].url]

select_most_relevant_urls(found_urls) ==
  IF found_urls = <<>> THEN <<>>
  ELSE LET scored_urls == ScoredUrls(found_urls)
       IN  IF scored_urls = <<>> THEN <<>>
           ELSE <<SortByScoreDesc(scored_urls)[1].url>>

(***************************************************************************)
(* State                                                                   *)
(***************************************************************************)
VARIABLES
  call,                \* what the caller invoked: "none", "fetch" (the fetcher alone) or "discover"
  pc,                  \* position of check_terms_exist / find_terms_links
  f_state,             \* make_request_with_retry: "idle", "running" or "returned"
  f_url,               \* its url argument
  f_retries,           \* its retries argument
  attempt,             \* its loop variable
  f_log,               \* how each attempt of the current fetch ended: [kind, status]
  f_ret,               \* its return value (final_url, html_content, error_message)
  root_last,           \* how the last attempt of the root fetch ended
  root_ret,            \* what the root fetch returned: [has_html, error]
  extracted,           \* find_terms_links built its candidate list
  all_candidate_links, \* internal_links + external_links
  follow_idx,          \* position of the loop over all_candidate_links
  final_links,         \* (final_url, link_text) list handed to the selector
  resolved_links,      \* final_links as the loop over the candidates left it
  probed,              \* try_common_terms_urls was called
  probe_idx,           \* position of the loop over common_patterns
  probe_last,          \* how the last probe ended
  found_urls,          \* hits of try_common_terms_urls
  probe_requests,      \* the urls the prober requested, in request order
  probe_hits,          \* [probed, final] of every probe answered with status 200
  n_follow_requests,   \* HTTP requests issued to resolve candidates
  n_probe_requests,    \* HTTP requests issued by the prober
  n_follow_failed,     \* candidates whose resolving fetch returned no final url
  result               \* the TermsCheckResponse returned by check_terms_exist

\* the website_analysis collection and the calls made on it
VARIABLES
  store,               \* the documents of the collection: [url, analysis_id, created_at, expires_at]
  now,                 \* datetime.now(timezone.utc), in days
  ticks,               \* how many times the clock advanced
  n_saves,             \* calls of save_analysis
  id_history,          \* the analysis_id of every document written, in write order
  last_op,             \* the last call on the cache service and what it returned
  req,                 \* the analyze-terms requests in flight: [pc, url, next_id, saved, from_cache]
  n_reqs               \* analyze-terms requests received

\* calls of the pure functions on chosen inputs
VARIABLES
  scored,              \* the last call of calculate_relevance_score and what it returned
  ex                   \* the last run of the extraction loop of find_terms_links

\* the routes served over the cache, the discovery and the AI service
VARIABLES
  rt                   \* the analyze-terms request being served, step by step

\* calls in flight together
VARIABLES
  stats_call,          \* get_cache_stats between its two count_documents queries
  par                  \* the frame of every check_terms_exist call in flight

fvars == <<f_state, f_url, f_retries, attempt, f_log, f_ret>>
rootvars == <<root_last, root_ret>>
linkvars == <<extracted, all_candidate_links, follow_idx, final_links, resolved_links>>
probevars == <<probed, probe_idx, probe_last, found_urls, probe_requests, probe_hits>>
countvars == <<n_follow_requests, n_probe_requests, n_follow_failed>>
discvars == <<call, pc, fvars, rootvars, linkvars, probevars, countvars, result>>
storevars == <<store, now, ticks, n_saves, id_history, last_op>>
reqvars == <<req, n_reqs>>
cachevars == <<storevars, reqvars>>
purevars == <<scored, ex>>
routevars == <<rt>>
concvars == <<stats_call, par>>
vars == <<discvars, cachevars, purevars, routevars, concvars>>

RECURSIVE SeqsUpTo(_, _)
SeqsUpTo(S, n) ==
  IF n = 0 THEN {<<>>}
  ELSE LET shorter == SeqsUpTo(S, n - 1)
       IN  shorter \cup {Append(q, e) : q \in {x \in shorter : Len(x) = n - 1}, e \in S}

\* bodies the site may serve at its root: the empty body and every page of at most MaxElems elements
Pages == SeqsUpTo(ElemPool, MaxElems)

\* a body without anchors
PlainBody == <<[tag |-> "p", has_href |-> FALSE, href |-> <<>>, text |-> <<"n","e","w","s">>]>>

\* bodies served to a direct call of the fetcher
OtherBodies == {<<>>, PlainBody}

\* bodies the current fetch may receive: the body of a followed candidate is
\* dropped by follow_terms_link, one stands for all
Bodies ==
  IF pc = "root_fetch" THEN Pages
  ELSE IF pc = "follow" THEN {PlainBody}
  ELSE OtherBodies

\* status codes the modelled servers answer with
ErrorStatuses == {403, 404, 429, 500, 503}

NoResp == [kind |-> "none", status |-> 0]
NoRet == [final_url |-> <<>>, html |-> <<>>, error |-> NoError]
\* number of client.get calls of the current fetch
f_requests == Len(f_log)

\* how the last attempt of the current fetch ended
f_last == IF f_log = <<>> THEN NoResp ELSE f_log[Len(f_log)]

NoResult == [url |-> <<>>, has_terms |-> FALSE, found_terms_pages |-> <<>>, error |-> NoError]

\* what one client.get(url) of the fetcher can end in: a response (after
\* redirects, at url or at the login page) or an exception
(***************************************************************************)
(* Cache store: WebsiteAnalysisCacheService over the website_analysis      *)
(* collection                                                              *)
(***************************************************************************)
MaxTicks == 2
MaxSaves == 3
MaxReqs == 3

\* timedelta(days=90)
TtlDays == 90

\* the clock advances by a day or by the whole time to live
TickSteps == {1, TtlDays}

OtherUrl == <<"h", "t", "t", "p", "s", ":", "/", "/", "b", ".", "o", "r", "g">>

\* the urls analyses are saved for
CacheUrls == {BaseUrl, OtherUrl}

\* the two requests that can be in flight together
Reqs == {1, 2}

\* how a call on the collection can go: served, collection is None, or the driver raises
Faults == {"none", "unavailable", "throws"}

NoOp ==
  [op |-> "none", url |-> <<>>, fault |-> "none", ok |-> FALSE, n |-> 0,
   doc |-> {}, prev |-> {}, cached |-> FALSE, expired |-> FALSE,
   status |-> 0, after |-> "none", total |-> 0, valid |-> 0, n_expired |-> 0,
   analysis |-> {}]

IdleReq == [pc |-> "idle", url |-> <<>>, next_id |-> 0, saved |-> FALSE, from_cache |-> FALSE]

SetMax(S) == CHOOSE x \in S : \A y \in S : y <= x

\* find_one({}, sort=[("analysis_id", -1)]) and the id computed from it
NextAnalysisId_firstfree(st) ==
  LET ids == {d.analysis_id : d \in st}
  IN  CHOOSE n \in 1..(Cardinality(st) + 1) : n \notin ids /\ \A m \in 1..(n - 1) : m \in ids
NextAnalysisId(st) ==
  IF st = {} THEN 1 ELSE SetMax({d.analysis_id : d \in st}) + 1

\* WebsiteAnalysisDocument(**analysis.model_dump(), analysis_id, created_at, expires_at)
WebsiteAnalysisDocument_nottl(url, id, t) ==
  [url |-> url, analysis_id |-> id, created_at |-> t, expires_at |-> t]
WebsiteAnalysisDocument(url, id, t) ==
  [url |-> url, analysis_id |-> id, created_at |-> t, expires_at |-> t + TtlDays]

\* find_one({"url": url})
FindOne(st, url) == {d \in st : d.url = url}

\* variant: only url_unique is enforced
DuplicateKey_urlonly(st, doc) == \E d \in st : d.url = doc.url

\* the unique indexes url_unique and analysis_id_unique reject the document
DuplicateKey(st, doc) ==
  \E d \in st : d.url = doc.url \/ d.analysis_id = doc.analysis_id

\* replace_one({"url": url}, document, upsert=True): [ok, store]
ReplaceOne_insert(st, url, doc) == [ok |-> TRUE, store |-> st \cup {doc}]
ReplaceOne_byid(st, url, doc) ==
  [ok |-> TRUE, store |-> {d \in st : d.analysis_id # doc.analysis_id} \cup {doc}]
ReplaceOne(st, url, doc) ==
  LET matched == FindOne(st, url)
      rest == st \ matched
  IN  IF DuplicateKey(rest, doc)
      THEN [ok |-> FALSE, store |-> st]
      ELSE [ok |-> TRUE, store |-> rest \cup {doc}]

\* {"expires_at": {"$gt": now}}
IsValid_gte(d, t) == d.expires_at >= t
IsValid(d, t) == d.expires_at > t

\* is_expired = expires_at_utc < now
IsExpired_late(d, t) == d.expires_at + 1 < t
IsExpired(d, t) == d.expires_at < t

\* {"expires_at": {"$lt": now}}
SweepMatches(d, t) == d.expires_at < t

\* count_documents({"expires_at": {"$gt": now}})
StatsValid(d, t) == d.expires_at > t

\* delete_one({"url": url}): the documents removed
DeleteOne_all(st, url) == st
DeleteOne(st, url) == FindOne(st, url)

\* get_cache_stats(): [error, total, valid, expired]
get_cache_stats(st, t, fault) ==
  IF fault # "none" THEN [error |-> TRUE, total |-> 0, valid |-> 0, expired |-> 0]
  ELSE LET total_count == Cardinality(st)
           valid_count == Cardinality({d \in st : StatsValid(d, t)})
       IN  [error |-> FALSE, total |-> total_count, valid |-> valid_count,
            expired |-> total_count - valid_count]

\* get_cached_analysis(url): the document the response is built from, if any
get_cached_analysis(st, url, t, fault) ==
  IF fault # "none" THEN {} ELSE {d \in FindOne(st, url) : IsValid(d, t)}

\* get_cache_info(url): [cached, expired, doc]
get_cache_info(st, url, t, fault) ==
  IF fault # "none" \/ FindOne(st, url) = {}
  THEN [cached |-> FALSE, expired |-> FALSE, doc |-> {}]
  ELSE LET d == CHOOSE x \in FindOne(st, url) : TRUE
       IN  [cached |-> TRUE, expired |-> IsExpired(d, t), doc |-> {d}]

\* variant: a url that has an entry keeps it, only new urls are saved
save_analysis_insertonly(st, url, t, fault) ==
  IF fault # "none" \/ FindOne(st, url) # {} THEN [ok |-> FALSE, store |-> st, doc |-> {}]
  ELSE LET document == WebsiteAnalysisDocument(url, NextAnalysisId(st), t)
       IN  [ok |-> TRUE, store |-> st \cup {document}, doc |-> {document}]

\* save_analysis(analysis): [ok, store, doc]
save_analysis(st, url, t, fault) ==
  IF fault # "none" THEN [ok |-> FALSE, store |-> st, doc |-> {}]
  ELSE LET document == WebsiteAnalysisDocument(url, NextAnalysisId(st), t)
           res == ReplaceOne(st, url, document)
       IN  [ok |-> res.ok, store |-> res.store, doc |-> IF res.ok THEN {document} ELSE {}]

\* clear_expired_cache(): [n, store]
clear_expired_cache_unguarded(st, t, fault) ==
  LET gone == {d \in st : SweepMatches(d, t)}
  IN  [n |-> IF fault # "none" THEN 0 ELSE Cardinality(gone), store |-> st \ gone]
clear_expired_cache(st, t, fault) ==
  IF fault # "none" THEN [n |-> 0, store |-> st]
  ELSE LET gone == {d \in st : SweepMatches(d, t)}
       IN  [n |-> Cardinality(gone), store |-> st \ gone]

(***************************************************************************)
(* Inputs of the scorer and of the extraction loop                         *)
(***************************************************************************)
MaxWords == 2

\* words an anchor text is made of
ScoreWords ==
  { <<"P", "r", "i", "v", "a", "c", "y", " ", "P", "o", "l", "i", "c", "y">>,
    <<"C", "o", "n", "d", "i", "t", "i", "o", "n", "s">>,
    <<"C", "a", "r", "e", "e", "r", "s">>,
    <<"C", "o", "o", "k", "i", "e", "s">>,
    <<"L", "e", "g", "a", "l">> }

RECURSIVE JoinWords(_)
JoinWords(ws) ==
  IF ws = <<>> THEN <<>>
  ELSE IF Len(ws) = 1 THEN ws[1]
  ELSE ws[1] \o <<" ">> \o JoinWords(Tail(ws))

ScoreTexts == {JoinWords(ws) : ws \in SeqsUpTo(ScoreWords, MaxWords)}

ScoreUrls ==
  { BaseUrl,
    BaseUrl \o <<"/", "c", "a", "r", "e", "e", "r", "s">>,
    BaseUrl \o <<"/", "p", "r", "i", "v", "a", "c", "y">>,
    BaseUrl \o <<"/", "c", "o", "n", "d", "i", "t", "i", "o", "n", "s">> }

\* the phrases of high_priority + french_high
HighPhrases == high_priority \o french_high

\* link_text with one more phrase, as words of its own
AddPhrase(link_text, phrase, side) ==
  IF link_text = <<>> THEN phrase
  ELSE IF side = "front" THEN phrase \o <<" ">> \o link_text
  ELSE link_text \o <<" ">> \o phrase

\* a base url whose host holds a word of terms_patterns
LegalBaseUrl == <<"h", "t", "t", "p", "s", ":", "/", "/", "l", "e", "g", "a", "l", ".", "a", ".", "c", "o", "m">>

ExtractBases == {BaseUrl, LegalBaseUrl}

\* the anchors of the pages given to the extraction loop
ExtractPool ==
  ElemPool \cup
  { [tag |-> "a", has_href |-> TRUE, href |-> <<"/", "d", "a", "t", "a">>, text |-> <<"D", "a", "t", "a", " ", "P", "r", "o", "t", "e", "c", "t", "i", "o", "n">>] }

\* how the fetch that resolves a candidate can end: answered at the url,
\* answered after a redirect, or failed
FollowOutcomes == {"same", "redirect", "failed"}

\* what make_request_with_retry returns to follow_terms_link
FollowRet(link_url, outcome) ==
  [final_url |-> IF outcome = "same" THEN link_url
                 ELSE IF outcome = "redirect" THEN LoginUrl
                 ELSE <<>>]

NoExtract ==
  [done |-> FALSE, base |-> <<>>, page |-> <<>>, raised |-> FALSE,
   candidates |-> <<>>, outcomes |-> <<>>, final_links |-> <<>>]

\* get_cache_stats before its first query
NoStats == [pc |-> "idle", t |-> 0, total |-> 0, valid |-> 0, expired |-> 0]

\* the check_terms_exist calls that can be in flight together
Calls == {1, 2}

\* the locals of a check_terms_exist call and of the fetch it is waiting for;
\* `log` keeps the responses the call received, `overlapped` says that
\* another call was in flight when this one resumed
NoFrame ==
  [pc |-> "idle", attempt |-> 0, all_candidate_links |-> <<>>, follow_idx |-> 0,
   final_links |-> <<>>, result |-> NoResult, log |-> <<>>, overlapped |-> FALSE]

\* the request between two calls; `read_failed` says that a valid entry was
\* missed because the read of the cache failed, `write_failed` that the
\* collection did not serve save_analysis, `refreshed` keeps the urls whose
\* expired entry a request replaced
BlankRoute ==
  [pc |-> "idle", url |-> <<>>, read_failed |-> FALSE, from_cache |-> FALSE,
   was_expired |-> FALSE, terms_result |-> NoResult, analysis |-> "none",
   analysis_method |-> "none", by_url |-> "none", by_text |-> "none",
   n_discover |-> 0, n_by_url |-> 0, n_by_text |-> 0,
   status |-> 0, error |-> FALSE, saving |-> FALSE, saved |-> FALSE, write_failed |-> FALSE]

IdleRoute == [req |-> BlankRoute, refreshed |-> {}]

NoScored ==
  [done |-> FALSE, url |-> <<>>, text |-> <<>>, raw |-> 0, score |-> 0,
   more_text |-> <<>>, more_score |-> 0]

FetchResponses(url, bodies) ==
  {[kind |-> "response", status |-> 200, url |-> u, text |-> b] : u \in {url, LoginUrl}, b \in bodies}
  \cup {[kind |-> "response", status |-> st, url |-> url, text |-> <<>>] : st \in ErrorStatuses}
  \cup {[kind |-> k, status |-> 0, url |-> <<>>, text |-> <<>>] :
          k \in {"timeout", "connect", "ssl", "other"}}

Init ==
  /\ call = "none"
  /\ pc = "idle"
  /\ f_state = "idle"
  /\ f_url = <<>>
  /\ f_retries = 0
  /\ attempt = 0
  /\ f_log = <<>>
  /\ f_ret = NoRet
  /\ root_last = NoResp
  /\ root_ret = [has_html |-> FALSE, error |-> NoError]
  /\ extracted = FALSE
  /\ all_candidate_links = <<>>
  /\ follow_idx = 0
  /\ final_links = <<>>
  /\ resolved_links = <<>>
  /\ probed = FALSE
  /\ probe_idx = 0
  /\ probe_last = NoResp
  /\ found_urls = <<>>
  /\ probe_requests = <<>>
  /\ probe_hits = <<>>
  /\ n_follow_requests = 0
  /\ n_probe_requests = 0
  /\ n_follow_failed = 0
  /\ result = NoResult
  /\ store = {}
  /\ now = 0
  /\ ticks = 0
  /\ n_saves = 0
  /\ id_history = <<>>
  /\ last_op = NoOp
  /\ req = [r \in Reqs |-> IdleReq]
  /\ n_reqs = 0
  /\ scored = NoScored
  /\ ex = NoExtract
  /\ rt = IdleRoute
  /\ stats_call = NoStats
  /\ par = [c \in Calls |-> NoFrame]

(***************************************************************************)
(* Resilient fetcher: make_request_with_retry                              *)
(***************************************************************************)
\* entry of make_request_with_retry(url, retries)
StartFetch(url, retries) ==
  /\ f_state' = "running"
  /\ f_url' = url
  /\ f_retries' = retries
  /\ attempt' = 0
  /\ f_log' = <<>>
  /\ f_ret' = NoRet

FetchReturn(final_url, html, error) ==
  /\ f_state' = "returned"
  /\ f_ret' = [final_url |-> final_url, html |-> html, error |-> error]
  /\ attempt' = attempt

FetchContinue ==
  /\ f_state' = "running"
  /\ f_ret' = f_ret
  /\ attempt' = attempt + 1

\* the caller took the return value: the frame of the call is gone
FetchFrameDropped ==
  /\ f_state' = "idle"
  /\ f_url' = <<>>
  /\ f_retries' = 0
  /\ attempt' = 0
  /\ f_log' = <<>>
  /\ f_ret' = NoRet

\* variant: a 403 is returned at once
FinalAttempt_always(a, retries) == TRUE

\* `if attempt == retries` of the 403 branch
FinalAttempt(a, retries) == a = retries

\* variant: off by one, the last attempt is taken to have a successor
AttemptsRemain_offbyone(a, retries) == a <= retries

\* `if attempt < retries` of the 429 and the timeout branch
AttemptsRemain(a, retries) == a < retries

\* variant: 503 is retried like 429
IsRateLimited_or503(status) == status \in {429, 503}

\* `elif e.response.status_code == 429`
IsRateLimited(status) == status = 429

\* raise_for_status() passes: the response is a success
IsSuccess(status) == 200 <= status /\ status < 300

\* the try block and `except httpx.HTTPStatusError`
HandleStatus(resp) ==
  IF IsSuccess(resp.status)
  THEN FetchReturn(resp.url, resp.text, NoError)
  ELSE IF resp.status = 403
  THEN IF FinalAttempt(attempt, f_retries)
       THEN FetchReturn(<<>>, <<>>, get_friendly_error_message(f_url, 403, "http"))
       ELSE FetchContinue
  ELSE IF IsRateLimited(resp.status)
  THEN IF AttemptsRemain(attempt, f_retries)
       THEN FetchContinue
       ELSE FetchReturn(<<>>, <<>>, get_friendly_error_message(f_url, 429, "http"))
  ELSE FetchReturn(<<>>, <<>>, get_friendly_error_message(f_url, resp.status, "http"))

\* variant: a connection error returns no message
HandleException_silent(resp) ==
  IF resp.kind = "timeout"
  THEN IF AttemptsRemain(attempt, f_retries)
       THEN FetchContinue
       ELSE FetchReturn(<<>>, <<>>, get_friendly_error_message(f_url, 0, "timeout"))
  ELSE IF resp.kind = "connect"
  THEN FetchReturn(<<>>, <<>>, NoError)
  ELSE IF resp.kind = "ssl"
  THEN FetchReturn(<<>>, <<>>, get_friendly_error_message(f_url, 0, "ssl"))
  ELSE FetchReturn(<<>>, <<>>, get_friendly_error_message(f_url, 0, "generic"))

\* `except httpx.TimeoutException`, `except httpx.ConnectError`, `except Exception`
HandleException(resp) ==
  IF resp.kind = "timeout"
  THEN IF AttemptsRemain(attempt, f_retries)
       THEN FetchContinue
       ELSE FetchReturn(<<>>, <<>>, get_friendly_error_message(f_url, 0, "timeout"))
  ELSE IF resp.kind = "connect"
  THEN FetchReturn(<<>>, <<>>, get_friendly_error_message(f_url, 0, "connection"))
  ELSE IF resp.kind = "ssl"
  THEN FetchReturn(<<>>, <<>>, get_friendly_error_message(f_url, 0, "ssl"))
  ELSE FetchReturn(<<>>, <<>>, get_friendly_error_message(f_url, 0, "generic"))

\* what the body of the for loop does with the outcome resp of client.get
HandleResponse(resp) ==
  IF resp.kind = "response" THEN HandleStatus(resp) ELSE HandleException(resp)

\* one iteration of `for attempt in range(retries + 1)`, or the code behind the loop
FetchAttempt ==
  /\ f_state = "running"
  /\ IF attempt > f_retries
     THEN /\ FetchReturn(<<>>, <<>>, get_friendly_error_message(f_url, 0, "generic"))
          /\ UNCHANGED <<f_log, countvars>>
     ELSE \E resp \in FetchResponses(f_url, Bodies) :
            /\ f_log' = Append(f_log, [kind |-> resp.kind, status |-> resp.status])
            /\ n_follow_requests' = n_follow_requests + (IF pc = "follow" THEN 1 ELSE 0)
            /\ UNCHANGED <<n_probe_requests, n_follow_failed>>
            /\ HandleResponse(resp)
  /\ UNCHANGED <<cachevars, purevars, routevars, concvars, call, pc, f_url, f_retries, rootvars, linkvars, probevars, result>>

\* the caller invokes the fetcher alone
CallFetch ==
  /\ call = "none"
  /\ call' = "fetch"
  /\ \E r \in 0..MaxRetries : StartFetch(BaseUrl, r)
  /\ UNCHANGED <<cachevars, purevars, routevars, concvars, pc, rootvars, linkvars, probevars, countvars, result>>

(***************************************************************************)
(* Link candidate extractor: the synchronous part of find_terms_links      *)
(***************************************************************************)
\* s.strip()
RECURSIVE Strip(_)
Strip(s) ==
  IF s = <<>> THEN s
  ELSE IF Head(s) = " " THEN Strip(Tail(s))
  ELSE IF s[Len(s)] = " " THEN Strip(SubSeq(s, 1, Len(s) - 1))
  ELSE s

\* soup.find_all('a', href=True)
all_links(html_content) == SelectSeq(html_content, LAMBDA e : e.tag = "a" /\ e.has_href)

\* any(pattern in s for pattern in terms_patterns)
AnyTermsPattern(s) == \E i \in 1..Len(terms_patterns) : Contains(terms_patterns[i], s)

\* variant: the patterns are looked for in the resolved url
is_terms_link_resolved(base_url, link) ==
  /\ link.href # <<>>
  /\ LET full_url == urljoin(base_url, link.href)
     IN  /\ StartsWith(full_url, S_http) \/ StartsWith(full_url, S_https)
         /\ AnyTermsPattern(Lower(Strip(link.text))) \/ AnyTermsPattern(Lower(full_url))

\* the test of the loop body: the anchor is kept as a candidate
is_terms_link(base_url, link) ==
  /\ link.href # <<>>
  /\ LET full_url == urljoin(base_url, link.href)
     IN  StartsWith(full_url, S_http) \/ StartsWith(full_url, S_https)
  /\ AnyTermsPattern(Lower(Strip(link.text))) \/ AnyTermsPattern(Lower(link.href))

link_data(base_url, link) == [url |-> urljoin(base_url, link.href), text |-> Strip(link.text)]

\* urljoin raises ValueError on some anchor of the page
ExtractRaises(base_url, html_content) ==
  \E i \in 1..Len(html_content) :
    LET e == html_content[i]
    IN  e.tag = "a" /\ e.has_href /\ e.href # <<>> /\ UrlSplitRaises(e.href)

CandidatesOf(base_url, html_content) ==
  LET kept == SelectSeq(all_links(html_content), LAMBDA e : is_terms_link(base_url, e))
  IN  [i \in 1..Len(kept) |-> link_data(base_url, kept[i])]

IsInternal(base_url, c) == Lower(Netloc(c.url)) = Lower(Netloc(base_url))

internal_links(base_url, html_content) ==
  SelectSeq(CandidatesOf(base_url, html_content), LAMBDA c : IsInternal(base_url, c))

external_links(base_url, html_content) ==
  SelectSeq(CandidatesOf(base_url, html_content), LAMBDA c : ~IsInternal(base_url, c))

\* variant: the candidates in page order
AllCandidateLinks_pageorder(base_url, html_content) == CandidatesOf(base_url, html_content)

\* all_candidate_links = internal_links + external_links
AllCandidateLinks(base_url, html_content) ==
  internal_links(base_url, html_content) \o external_links(base_url, html_content)

(***************************************************************************)
(* Discovery orchestrator: check_terms_exist and find_terms_links          *)
(***************************************************************************)
InternalError == [category |-> "internal", domain |-> <<>>, status |-> 0]

\* variant: a response without pages always carries an error
TermsCheckResponse_nopages(has_terms, found, error) ==
  [url |-> BaseUrl, has_terms |-> has_terms, found_terms_pages |-> found,
   error |-> IF found = <<>> /\ error = NoError
             THEN get_friendly_error_message(BaseUrl, 0, "generic")
             ELSE error]

\* TermsCheckResponse(url, has_terms, found_terms_pages, error)
TermsCheckResponse(has_terms, found, error) ==
  [url |-> BaseUrl, has_terms |-> has_terms, found_terms_pages |-> found, error |-> error]

\* variant: the failure of the root fetch is not looked at
RootFailed_never(ret) == FALSE

\* `if not html_content` of check_terms_exist
RootFailed(ret) == ret.html = <<>>

\* entry of check_terms_exist(url): the root fetch is started
CallDiscover ==
  /\ call = "none"
  /\ call' = "discover"
  /\ pc' = "root_fetch"
  /\ StartFetch(BaseUrl, DefaultRetries)
  /\ UNCHANGED <<cachevars, purevars, routevars, concvars, rootvars, linkvars, probevars, countvars, result>>

\* the root fetch returned: `if not html_content` returns the failure,
\* otherwise find_terms_links parses the page and builds the candidate list;
\* an exception of that part is caught by check_terms_exist
RootFetched ==
  /\ pc = "root_fetch"
  /\ f_state = "returned"
  /\ root_last' = f_last
  /\ root_ret' = [has_html |-> f_ret.html # <<>>, error |-> f_ret.error]
  /\ FetchFrameDropped
  /\ IF RootFailed(f_ret)
     THEN /\ result' = TermsCheckResponse(FALSE, <<>>,
                          IF f_ret.error # NoError
                          THEN f_ret.error
                          ELSE get_friendly_error_message(BaseUrl, 0, "generic"))
          /\ pc' = "done"
          /\ UNCHANGED linkvars
     ELSE IF ExtractRaises(BaseUrl, f_ret.html)
     THEN /\ result' = TermsCheckResponse(FALSE, <<>>, InternalError)
          /\ pc' = "done"
          /\ UNCHANGED linkvars
     ELSE /\ all_candidate_links' = AllCandidateLinks(BaseUrl, f_ret.html)
          /\ extracted' = TRUE
          /\ follow_idx' = 1
          /\ final_links' = <<>>
          /\ resolved_links' = <<>>
          /\ pc' = "follow"
          /\ result' = result
  /\ UNCHANGED <<cachevars, purevars, routevars, concvars, call, probevars, countvars>>

\* follow_terms_link(potential_url) calls the fetcher for the next candidate
FollowCall ==
  /\ pc = "follow"
  /\ f_state = "idle"
  /\ follow_idx <= Len(all_candidate_links)
  /\ StartFetch(all_candidate_links[follow_idx].url, DefaultRetries)
  /\ UNCHANGED <<cachevars, purevars, routevars, concvars, call, pc, rootvars, linkvars, probevars, countvars, result>>

\* variant: the resolver returns what the fetch returned, nothing on a failure
follow_terms_link_strict(link_url, ret) == ret.final_url

\* follow_terms_link returns final_url, or link_url when the fetch failed
follow_terms_link(link_url, ret) == IF ret.final_url # <<>> THEN ret.final_url ELSE link_url

\* the fetch of a candidate returned: the loop appends (final_url, link_text)
FollowReturn ==
  /\ pc = "follow"
  /\ f_state = "returned"
  /\ LET c == all_candidate_links[follow_idx]
         final_url == follow_terms_link(c.url, f_ret)
     IN  final_links' = IF final_url # <<>>
                        THEN Append(final_links, [url |-> final_url, text |-> c.text])
                        ELSE final_links
  /\ follow_idx' = follow_idx + 1
  /\ n_follow_failed' = n_follow_failed + (IF f_ret.final_url = <<>> THEN 1 ELSE 0)
  /\ FetchFrameDropped
  /\ UNCHANGED <<cachevars, purevars, routevars, concvars, call, pc, rootvars, extracted, all_candidate_links, resolved_links,
                 probevars, n_follow_requests, n_probe_requests, result>>

\* variant: the prober is called whatever the extraction found
NeedsFallback_always(links) == TRUE

\* variant: the prober is called when no link has a positive score
NeedsFallback_noscore(links) == select_most_relevant_urls(links) = <<>>

\* `if not final_links` of find_terms_links
NeedsFallback(links) == links = <<>>

\* end of the loop over the candidates: `if not final_links` calls the prober
FollowEnd ==
  /\ pc = "follow"
  /\ f_state = "idle"
  /\ follow_idx > Len(all_candidate_links)
  /\ resolved_links' = final_links
  /\ IF NeedsFallback(final_links)
     THEN /\ pc' = "probe"
          /\ probed' = TRUE
          /\ probe_idx' = 1
          /\ found_urls' = <<>>
          /\ UNCHANGED <<probe_last, probe_requests, probe_hits>>
     ELSE /\ pc' = "select"
          /\ UNCHANGED probevars
  /\ UNCHANGED <<cachevars, purevars, routevars, concvars, call, fvars, rootvars, extracted, all_candidate_links, follow_idx,
                 final_links, countvars, result>>

(***************************************************************************)
(* Fallback prober: try_common_terms_urls                                  *)
(***************************************************************************)
\* the descriptive text given to a hit
ProbeLinkText(pattern) ==
  IF Contains(S_privacy, pattern) \/ Contains(S_confidentialite, pattern) THEN T_PrivacyPolicy
  ELSE IF Contains(S_cookie, pattern) THEN T_CookiePolicy
  ELSE IF Contains(S_mention, pattern) THEN T_MentionsLegales
  ELSE IF Contains(S_terms, pattern) \/ Contains(S_condition, pattern) THEN T_TermsConditions
  ELSE T_LegalInformation

\* what one client.get(test_url) of the prober can end in: a response (after
\* redirects, at test_url or at the login page) or an exception
ProbeResponses(test_url) ==
  {[kind |-> "response", status |-> 200, url |-> u] : u \in {test_url, LoginUrl}}
  \cup {[kind |-> "response", status |-> st, url |-> test_url] : st \in {204, 304, 404, 500}}
  \cup {[kind |-> "timeout", status |-> 0, url |-> <<>>]}

\* variant: every success status counts as a hit
IsHit_2xx(resp) == resp.kind = "response" /\ 200 <= resp.status /\ resp.status < 300

\* `if response.status_code == 200`, reached when client.get did not raise
IsHit(resp) == resp.kind = "response" /\ resp.status = 200

\* variant: the requested url is recorded, not the url of the response
HitUrl_requested(test_url, resp) == test_url

\* str(response.url) of the appended hit
HitUrl(test_url, resp) == resp.url

\* variant: an exception leaves the loop
ProbeAdvance_abort(i, resp) ==
  IF resp.kind = "response" THEN i + 1 ELSE Len(common_patterns) + 1

\* the loop goes on to the next pattern, also after `except Exception: pass`
ProbeAdvance(i, resp) == i + 1

\* one iteration of the loop over common_patterns
ProbeStep ==
  /\ pc = "probe"
  /\ probe_idx <= Len(common_patterns)
  /\ LET pattern == common_patterns[probe_idx]
         test_url == urljoin(BaseUrl, pattern)
     IN  \E resp \in ProbeResponses(test_url) :
           /\ resp.status = 200 => Len(found_urls) < MaxHits
           /\ probe_last' = [kind |-> resp.kind, status |-> resp.status]
           /\ probe_requests' = Append(probe_requests, test_url)
           /\ probe_hits' = IF resp.kind = "response" /\ resp.status = 200
                            THEN Append(probe_hits, [probed |-> test_url, final |-> resp.url])
                            ELSE probe_hits
           /\ found_urls' = IF IsHit(resp)
                            THEN Append(found_urls, [url |-> HitUrl(test_url, resp),
                                                     text |-> ProbeLinkText(pattern)])
                            ELSE found_urls
           /\ probe_idx' = ProbeAdvance(probe_idx, resp)
  /\ n_probe_requests' = n_probe_requests + 1
  /\ UNCHANGED <<cachevars, purevars, routevars, concvars, call, pc, fvars, rootvars, linkvars, probed, n_follow_requests,
                 n_follow_failed, result>>

\* the prober returns found_urls and find_terms_links extends final_links with it
ProbeEnd ==
  /\ pc = "probe"
  /\ probe_idx > Len(common_patterns)
  /\ final_links' = final_links \o found_urls
  /\ pc' = "select"
  /\ UNCHANGED <<cachevars, purevars, routevars, concvars, call, fvars, rootvars, extracted, all_candidate_links, follow_idx,
                 resolved_links, probevars, countvars, result>>

\* find_terms_links returns the selection and check_terms_exist builds its response
Select ==
  /\ pc = "select"
  /\ LET terms_links == select_most_relevant_urls(final_links)
     IN  result' = TermsCheckResponse(Len(terms_links) > 0, terms_links, NoError)
  /\ pc' = "done"
  /\ UNCHANGED <<cachevars, purevars, routevars, concvars, call, fvars, rootvars, linkvars, probevars, countvars>>

Next ==
  \/ CallFetch
  \/ CallDiscover
  \/ FetchAttempt
  \/ RootFetched
  \/ FollowCall
  \/ FollowReturn
  \/ FollowEnd
  \/ ProbeStep
  \/ ProbeEnd
  \/ Select

Spec == Init /\ [][Next]_vars

\* the fetcher called alone, with every attempt eventually answered or timed out
NextFetch ==
  \/ CallFetch
  \/ FetchAttempt

SpecFetch == Init /\ [][NextFetch]_vars /\ WF_vars(FetchAttempt)

(***************************************************************************)
(* Routes: POST /analyze-terms and GET /analysis/{url}                     *)
(***************************************************************************)
\* a terms page found by the discovery
TermsUrl == BaseUrl \o P_privacy

\* what check_terms_exist can return: a failure of the root fetch, no page, one page
DiscoveryResults ==
  {TermsCheckResponse(FALSE, <<>>, get_friendly_error_message(BaseUrl, 0, "generic")),
   TermsCheckResponse(FALSE, <<>>, NoError),
   TermsCheckResponse(TRUE, <<TermsUrl>>, NoError)}

\* what an entry point of the AI service returns: None, a dict with
\* privacy_score, a dict without it
AiReturns == {"absent", "structured", "raw"}

\* what extract_terms_text returns: the text of the page, or "" on any failure
TextReturns == {"text", "empty"}

(***************************************************************************)
(* Cache store: the calls of the service, one at a time                    *)
(***************************************************************************)
\* time passes between two calls
Tick ==
  /\ ticks < MaxTicks
  /\ \E step \in TickSteps : now' = now + step
  /\ ticks' = ticks + 1
  /\ last_op' = NoOp
  /\ UNCHANGED <<discvars, purevars, routevars, concvars, store, n_saves, id_history, reqvars>>

\* save_analysis(analysis)
Save ==
  /\ n_saves < MaxSaves
  /\ \E url \in CacheUrls, fault \in Faults :
       LET res == save_analysis(store, url, now, fault)
       IN  /\ store' = res.store
           /\ id_history' = IF res.ok
                            THEN Append(id_history, (CHOOSE d \in res.doc : TRUE).analysis_id)
                            ELSE id_history
           /\ last_op' = [NoOp EXCEPT !.op = "save", !.url = url, !.fault = fault,
                                       !.ok = res.ok, !.doc = res.doc,
                                       !.prev = FindOne(store, url)]
  /\ n_saves' = n_saves + 1
  /\ UNCHANGED <<discvars, purevars, routevars, concvars, now, ticks, reqvars>>

\* DELETE /analysis/{url}: 500 without a collection, get_cache_info (404 when it
\* reports not cached, also when its find_one raised), then delete_one({"url": url})
\* (500 when it raises)
Delete ==
  /\ \E url \in CacheUrls, fault \in Faults, raised_in \in {"get_cache_info", "delete_one"} :
       LET info == get_cache_info(store, url, now,
                                  IF fault = "throws" /\ raised_in = "delete_one" THEN "none" ELSE fault)
           gone == IF fault = "none" /\ info.cached THEN DeleteOne(store, url) ELSE {}
           status == IF fault = "unavailable" THEN 500
                     ELSE IF ~info.cached THEN 404
                     ELSE IF fault = "throws" THEN 500
                     ELSE IF gone # {} THEN 200 ELSE 404
       IN  /\ fault # "throws" => raised_in = "get_cache_info"
           /\ store' = store \ gone
           /\ last_op' = [NoOp EXCEPT !.op = "delete", !.url = url, !.fault = fault,
                                       !.ok = status = 200, !.status = status,
                                       !.n = Cardinality(gone), !.prev = FindOne(store, url),
                                       !.doc = info.doc]
  /\ UNCHANGED <<discvars, purevars, routevars, concvars, now, ticks, n_saves, id_history, reqvars>>

\* clear_expired_cache()
Sweep ==
  /\ \E fault \in Faults :
       LET res == clear_expired_cache(store, now, fault)
       IN  /\ store' = res.store
           /\ last_op' = [NoOp EXCEPT !.op = "sweep", !.fault = fault, !.ok = fault = "none",
                                       !.n = res.n, !.prev = store \ res.store]
  /\ UNCHANGED <<discvars, purevars, routevars, concvars, now, ticks, n_saves, id_history, reqvars>>

\* get_cached_analysis(url)
GetValid ==
  /\ \E url \in CacheUrls, fault \in Faults :
       LET found == get_cached_analysis(store, url, now, fault)
       IN  last_op' = [NoOp EXCEPT !.op = "get_valid", !.url = url, !.fault = fault,
                                    !.ok = found # {}, !.doc = found]
  /\ UNCHANGED <<discvars, purevars, routevars, concvars, store, now, ticks, n_saves, id_history, reqvars>>

\* get_cache_info(url)
GetStatus ==
  /\ \E url \in CacheUrls, fault \in Faults :
       LET info == get_cache_info(store, url, now, fault)
       IN  last_op' = [NoOp EXCEPT !.op = "get_status", !.url = url, !.fault = fault,
                                    !.ok = fault = "none", !.doc = info.doc,
                                    !.cached = info.cached, !.expired = info.expired]
  /\ UNCHANGED <<discvars, purevars, routevars, concvars, store, now, ticks, n_saves, id_history, reqvars>>

\* get_cache_stats(), with the call made just before it
Stats ==
  /\ \E fault \in Faults :
       LET res == get_cache_stats(store, now, fault)
       IN  last_op' = [NoOp EXCEPT !.op = "stats", !.fault = fault, !.ok = ~res.error,
                                    !.total = res.total, !.valid = res.valid,
                                    !.n_expired = res.expired,
                                    !.after = IF last_op.fault = "none" THEN last_op.op ELSE "failed"]
  /\ UNCHANGED <<discvars, purevars, routevars, concvars, store, now, ticks, n_saves, id_history, reqvars>>

\* GET /analysis/{url}: get_cache_info (404 when it reports not cached), then
\* get_cached_analysis for the "analysis" of the answer
GetAnalysis ==
  /\ \E url \in CacheUrls, fault \in Faults :
       LET cache_info == get_cache_info(store, url, now, fault)
           cached_analysis == get_cached_analysis(store, url, now, fault)
       IN  last_op' = IF ~cache_info.cached
                      THEN [NoOp EXCEPT !.op = "get_analysis", !.url = url, !.fault = fault,
                                        !.status = 404]
                      ELSE [NoOp EXCEPT !.op = "get_analysis", !.url = url, !.fault = fault,
                                        !.ok = TRUE, !.status = 200, !.cached = TRUE,
                                        !.expired = cache_info.expired, !.doc = cache_info.doc,
                                        !.analysis = cached_analysis]
  /\ UNCHANGED <<discvars, purevars, routevars, concvars, store, now, ticks, n_saves, id_history, reqvars>>

NextCache ==
  \/ Tick
  \/ Save
  \/ Delete
  \/ Sweep
  \/ GetValid
  \/ GetStatus
  \/ Stats
  \/ GetAnalysis

SpecCache == Init /\ [][NextCache]_vars

(***************************************************************************)
(* Cache store: analyze-terms requests in flight together                  *)
(***************************************************************************)
\* analyze_terms_with_ai up to the cache lookup: a valid entry is returned at once
ReqCheckCache(r) ==
  /\ req[r].pc = "idle"
  /\ n_reqs < MaxReqs
  /\ \E url \in CacheUrls :
       LET cached == get_cached_analysis(store, url, now, "none")
       IN  req' = [req EXCEPT ![r] =
                     IF cached # {}
                     THEN [IdleReq EXCEPT !.pc = "done", !.url = url, !.from_cache = TRUE]
                     ELSE [IdleReq EXCEPT !.pc = "analyse", !.url = url]]
  /\ n_reqs' = n_reqs + 1
  /\ UNCHANGED <<discvars, purevars, routevars, concvars, storevars>>

\* discovery and the AI analysis, awaited: only an analysis is saved
ReqAnalyse(r) ==
  /\ req[r].pc = "analyse"
  /\ \E analysed \in BOOLEAN :
       req' = [req EXCEPT ![r].pc = IF analysed THEN "read_max" ELSE "done"]
  /\ UNCHANGED <<discvars, purevars, routevars, concvars, storevars, n_reqs>>

\* save_analysis: the read of the highest analysis_id
ReqReadMax(r) ==
  /\ req[r].pc = "read_max"
  /\ req' = [req EXCEPT ![r].pc = "replace", ![r].next_id = NextAnalysisId(store)]
  /\ UNCHANGED <<discvars, purevars, routevars, concvars, storevars, n_reqs>>

\* save_analysis: replace_one with the id read before; a duplicate key raises and gives False
ReqReplace(r) ==
  /\ req[r].pc = "replace"
  /\ LET document == WebsiteAnalysisDocument(req[r].url, req[r].next_id, now)
         res == ReplaceOne(store, req[r].url, document)
     IN  /\ store' = res.store
         /\ id_history' = IF res.ok THEN Append(id_history, document.analysis_id) ELSE id_history
         /\ req' = [req EXCEPT ![r].pc = "done", ![r].saved = res.ok]
  /\ UNCHANGED <<discvars, purevars, routevars, concvars, now, ticks, n_saves, last_op, n_reqs>>

\* the response is sent
ReqFinish(r) ==
  /\ req[r].pc = "done"
  /\ req' = [req EXCEPT ![r] = IdleReq]
  /\ UNCHANGED <<discvars, purevars, routevars, concvars, storevars, n_reqs>>

\* get_cache_stats: `now` is read and count_documents({}) answered
StatsCountTotal ==
  /\ stats_call.pc \in {"idle", "returned"}
  /\ stats_call' = [NoStats EXCEPT !.pc = "counted_total", !.t = now,
                                   !.total = Cardinality(store)]
  /\ UNCHANGED <<discvars, purevars, routevars, cachevars, par>>

\* get_cache_stats: count_documents({"expires_at": {"$gt": now}}) answered,
\* expired_count = total_count - valid_count, the statistics are returned
StatsCountValid ==
  /\ stats_call.pc = "counted_total"
  /\ LET valid_count == Cardinality({d \in store : StatsValid(d, stats_call.t)})
     IN  stats_call' = [NoStats EXCEPT !.pc = "returned", !.total = stats_call.total,
                                      !.valid = valid_count,
                                      !.expired = stats_call.total - valid_count]
  /\ UNCHANGED <<discvars, purevars, routevars, cachevars, par>>

NextConc ==
  \/ Tick
  \/ \E r \in Reqs : ReqCheckCache(r)
  \/ \E r \in Reqs : ReqAnalyse(r)
  \/ \E r \in Reqs : ReqReadMax(r)
  \/ \E r \in Reqs : ReqReplace(r)
  \/ \E r \in Reqs : ReqFinish(r)
  \/ StatsCountTotal
  \/ StatsCountValid

SpecConc == Init /\ [][NextConc]_vars

(***************************************************************************)
(* Routes: analyze_terms_with_ai served step by step, get_specific_analysis *)
(***************************************************************************)
\* variant: the cached analysis is never returned
CacheHit_never(cached) == FALSE

\* `if cached_analysis:` returns the cached analysis
CacheHit(cached) == cached # {}

\* variant: only a reported failure ends the request
DiscoveryStatus_lenient(terms_result) == IF terms_result.error # NoError THEN 400 ELSE 0

\* `if terms_result.error` raises 400, `if not has_terms or not found_terms_pages`
\* raises 404; 0 when the request goes on
DiscoveryStatus(terms_result) ==
  IF terms_result.error # NoError THEN 400
  ELSE IF ~terms_result.has_terms \/ terms_result.found_terms_pages = <<>> THEN 404
  ELSE 0

\* variant: the text mode is tried whatever the url mode returned
NeedsTextFallback_always(analysis) == TRUE

\* `if not analysis:` after analyze_terms_by_url
NeedsTextFallback(analysis) == analysis = "absent"

\* error=None if analysis else "AI analysis failed"
ResponseError(analysis) == analysis = "absent"

\* `if analysis:` before save_analysis(response)
ShouldSave(analysis) == analysis # "absent"

\* the request arrives: get_cached_analysis, then get_cache_info for the log
AnalyzeStart ==
  /\ rt.req.pc = "idle"
  /\ n_reqs < MaxReqs
  /\ \E url \in CacheUrls, fault \in Faults :
       LET cached_analysis == get_cached_analysis(store, url, now, fault)
           cache_info == get_cache_info(store, url, now, "none")
           begun == [BlankRoute EXCEPT !.url = url,
                                       !.read_failed = fault # "none" /\
                                          get_cached_analysis(store, url, now, "none") # {},
                                       !.was_expired = cache_info.cached /\ cache_info.expired]
       IN  rt' = [rt EXCEPT !.req =
                    IF CacheHit(cached_analysis)
                    THEN [begun EXCEPT !.pc = "done", !.from_cache = TRUE, !.status = 200]
                    ELSE [begun EXCEPT !.pc = "discover"]]
  /\ n_reqs' = n_reqs + 1
  /\ UNCHANGED <<discvars, purevars, concvars, storevars, req>>

\* check_terms_exist(url) returned
AnalyzeDiscover ==
  /\ rt.req.pc = "discover"
  /\ \E terms_result \in DiscoveryResults :
       LET status == DiscoveryStatus(terms_result)
       IN  rt' = [rt EXCEPT !.req.terms_result = terms_result,
                            !.req.n_discover = @ + 1,
                            !.req.status = status,
                            !.req.pc = IF status # 0 THEN "done" ELSE "by_url"]
  /\ UNCHANGED <<discvars, purevars, concvars, cachevars>>

\* analyze_terms_by_url(terms_url) returned
AnalyzeByUrl ==
  /\ rt.req.pc = "by_url"
  /\ \E analysis \in AiReturns :
       rt' = [rt EXCEPT !.req.by_url = analysis,
                        !.req.n_by_url = @ + 1,
                        !.req.analysis = analysis,
                        !.req.analysis_method = "url",
                        !.req.pc = IF NeedsTextFallback(analysis) THEN "extract_text" ELSE "respond"]
  /\ UNCHANGED <<discvars, purevars, concvars, cachevars>>

\* extract_terms_text(terms_url) returned: without text the method is "failed"
AnalyzeExtractText ==
  /\ rt.req.pc = "extract_text"
  /\ \E text_content \in TextReturns :
       rt' = IF text_content = "text"
             THEN [rt EXCEPT !.req.pc = "by_text"]
             ELSE [rt EXCEPT !.req.analysis_method = "failed", !.req.pc = "respond"]
  /\ UNCHANGED <<discvars, purevars, concvars, cachevars>>

\* analyze_terms_by_text(text_content, terms_url) returned
AnalyzeByText ==
  /\ rt.req.pc = "by_text"
  /\ \E analysis \in AiReturns :
       rt' = [rt EXCEPT !.req.by_text = analysis,
                        !.req.n_by_text = @ + 1,
                        !.req.analysis = analysis,
                        !.req.analysis_method = "text",
                        !.req.pc = "respond"]
  /\ UNCHANGED <<discvars, purevars, concvars, cachevars>>

\* the response is built and, `if analysis:`, handed to save_analysis
AnalyzeRespond ==
  /\ rt.req.pc = "respond"
  /\ \E fault \in Faults :
       LET r == rt.req
           error == ResponseError(r.analysis)
           saving == ShouldSave(r.analysis)
           res == IF saving THEN save_analysis(store, r.url, now, fault)
                  ELSE [ok |-> FALSE, store |-> store, doc |-> {}]
       IN  /\ ~saving => fault = "none"
           /\ store' = res.store
           /\ id_history' = IF res.ok
                            THEN Append(id_history, (CHOOSE d \in res.doc : TRUE).analysis_id)
                            ELSE id_history
           /\ rt' = [req |-> [r EXCEPT !.pc = "done", !.status = 200, !.error = error,
                                       !.saving = saving, !.saved = res.ok,
                                       !.write_failed = saving /\ fault # "none"],
                     refreshed |-> IF res.ok /\ r.was_expired
                                   THEN rt.refreshed \cup {r.url} ELSE rt.refreshed]
  /\ UNCHANGED <<discvars, purevars, concvars, now, ticks, n_saves, last_op, reqvars>>

\* the response or the HTTP error is sent
AnalyzeFinish ==
  /\ rt.req.pc = "done"
  /\ rt' = [rt EXCEPT !.req = BlankRoute]
  /\ UNCHANGED <<discvars, purevars, concvars, cachevars>>

NextRoute ==
  \/ Tick
  \/ AnalyzeStart
  \/ AnalyzeDiscover
  \/ AnalyzeByUrl
  \/ AnalyzeExtractText
  \/ AnalyzeByText
  \/ AnalyzeRespond
  \/ AnalyzeFinish

SpecRoute == Init /\ [][NextRoute]_vars

(***************************************************************************)
(* Discovery: check_terms_exist calls in flight together, each resumed at  *)
(* the responses to its own requests                                       *)
(***************************************************************************)
\* a page with one anchor to a terms page, and a page without any
PrivacyAnchor ==
  [tag |-> "a", has_href |-> TRUE, href |-> P_privacy, text |-> <<"P","r","i","v","a","c","y">>]

ParPages == {<<PrivacyAnchor>>, PlainBody}

\* what a call is resumed with: the response to the request of its fetcher
\* (a success, a 429, a 404), or the list its prober returned
ParFetched(url, bodies) ==
  {[kind |-> r.kind, status |-> r.status, url |-> r.url, text |-> r.text, found |-> <<>>] :
     r \in {x \in FetchResponses(url, bodies) : x.kind = "response" /\ x.status \in {200, 404, 429}}}

ParProbed ==
  {[kind |-> "probed", status |-> 0, url |-> <<>>, text |-> <<>>, found |-> found] :
     found \in {<<>>, <<[url |-> urljoin(BaseUrl, common_patterns[1]),
                        text |-> ProbeLinkText(common_patterns[1])]>>}}

ParResponses(f) ==
  IF f.pc = "root" THEN ParFetched(BaseUrl, ParPages)
  ELSE IF f.pc = "follow" THEN ParFetched(f.all_candidate_links[f.follow_idx].url, {<<>>})
  ELSE ParProbed

\* variant: the attempts of all the calls in flight count against one budget
AttemptOf_shared(p, c) == p[1].attempt + p[2].attempt

\* `for attempt in range(retries + 1)`: the loop variable of the call's own fetch
AttemptOf(p, c) == p[c].attempt

\* the body of the loop of make_request_with_retry on the response resp of
\* attempt a: [returned, ret], ret being (final_url, html_content, error_message)
ParFetch(url, retries, a, resp) ==
  LET return(final_url, html, error) ==
        [returned |-> TRUE, ret |-> [final_url |-> final_url, html |-> html, error |-> error]]
      continue == [returned |-> FALSE, ret |-> NoRet]
  IN  IF resp.kind = "response"
      THEN IF IsSuccess(resp.status) THEN return(resp.url, resp.text, NoError)
           ELSE IF resp.status = 403
           THEN IF FinalAttempt(a, retries)
                THEN return(<<>>, <<>>, get_friendly_error_message(url, 403, "http"))
                ELSE continue
           ELSE IF IsRateLimited(resp.status)
           THEN IF AttemptsRemain(a, retries)
                THEN continue
                ELSE return(<<>>, <<>>, get_friendly_error_message(url, 429, "http"))
           ELSE return(<<>>, <<>>, get_friendly_error_message(url, resp.status, "http"))
      ELSE IF resp.kind = "timeout"
      THEN IF AttemptsRemain(a, retries)
           THEN continue
           ELSE return(<<>>, <<>>, get_friendly_error_message(url, 0, "timeout"))
      ELSE IF resp.kind = "connect"
      THEN return(<<>>, <<>>, get_friendly_error_message(url, 0, "connection"))
      ELSE IF resp.kind = "ssl"
      THEN return(<<>>, <<>>, get_friendly_error_message(url, 0, "ssl"))
      ELSE return(<<>>, <<>>, get_friendly_error_message(url, 0, "generic"))

\* the end of find_terms_links and of check_terms_exist on final_links
ParSelected(f, links) ==
  LET terms_links == select_most_relevant_urls(links)
  IN  [f EXCEPT !.pc = "done", !.final_links = links,
                !.result = TermsCheckResponse(Len(terms_links) > 0, terms_links, NoError)]

\* the loop over the candidates is over: the prober is called `if not final_links`
ParFollowed(f, links) ==
  IF NeedsFallback(links)
  THEN [f EXCEPT !.pc = "fallback", !.final_links = links]
  ELSE ParSelected(f, links)

\* the call with frame f is resumed with resp, its fetch being at attempt a:
\* the frame at its next suspension point, or at its return
StepCall(f, resp, a) ==
  LET g == [f EXCEPT !.log = Append(@, resp)]
  IN  IF f.pc = "root"
      THEN LET o == ParFetch(BaseUrl, DefaultRetries, a, resp)
           IN  IF ~o.returned THEN [g EXCEPT !.attempt = @ + 1]
               ELSE IF RootFailed(o.ret)
               THEN [g EXCEPT !.pc = "done", !.attempt = 0,
                              !.result = TermsCheckResponse(FALSE, <<>>,
                                           IF o.ret.error # NoError THEN o.ret.error
                                           ELSE get_friendly_error_message(BaseUrl, 0, "generic"))]
               ELSE IF ExtractRaises(BaseUrl, o.ret.html)
               THEN [g EXCEPT !.pc = "done", !.attempt = 0,
                              !.result = TermsCheckResponse(FALSE, <<>>, InternalError)]
               ELSE LET candidates == AllCandidateLinks(BaseUrl, o.ret.html)
                        h == [g EXCEPT !.attempt = 0, !.all_candidate_links = candidates,
                                       !.follow_idx = 1]
                    IN  IF candidates = <<>> THEN ParFollowed(h, <<>>)
                        ELSE [h EXCEPT !.pc = "follow"]
      ELSE IF f.pc = "follow"
      THEN LET c == f.all_candidate_links[f.follow_idx]
               o == ParFetch(c.url, DefaultRetries, a, resp)
           IN  IF ~o.returned THEN [g EXCEPT !.attempt = @ + 1]
               ELSE LET final_url == follow_terms_link(c.url, o.ret)
                        links == IF final_url # <<>>
                                 THEN Append(f.final_links, [url |-> final_url, text |-> c.text])
                                 ELSE f.final_links
                        h == [g EXCEPT !.attempt = 0, !.follow_idx = @ + 1, !.final_links = links]
                    IN  IF f.follow_idx < Len(f.all_candidate_links) THEN h
                        ELSE ParFollowed(h, links)
      ELSE ParSelected(g, f.final_links \o resp.found)

\* check_terms_exist(url) is called: the call waits for its root fetch
ParCall(c) ==
  /\ par[c].pc = "idle"
  /\ par' = [par EXCEPT ![c] = [NoFrame EXCEPT !.pc = "root"]]
  /\ UNCHANGED <<discvars, purevars, routevars, cachevars, stats_call>>

\* a call in flight is resumed with the response it was waiting for
ParStep(c) ==
  /\ par[c].pc \in {"root", "follow", "fallback"}
  /\ \E resp \in ParResponses(par[c]) :
       par' = [par EXCEPT ![c] =
                 [StepCall(par[c], resp, AttemptOf(par, c)) EXCEPT
                    !.overlapped = @ \/ \E o \in Calls \ {c} :
                                          par[o].pc \in {"root", "follow", "fallback"}]]
  /\ UNCHANGED <<discvars, purevars, routevars, cachevars, stats_call>>

NextPar ==
  \/ \E c \in Calls : ParCall(c)
  \/ \E c \in Calls : ParStep(c)

SpecPar == Init /\ [][NextPar]_vars

(***************************************************************************)
(* The scorer called on its own                                            *)
(***************************************************************************)
\* calculate_relevance_score(url, link_text), and again for link_text with one
\* more high priority phrase
Score ==
  /\ ~scored.done
  /\ \E url \in ScoreUrls, text \in ScoreTexts,
        i \in 1..Len(HighPhrases), side \in {"front", "back"} :
       LET more == AddPhrase(text, HighPhrases[i], side)
       IN  scored' = [done |-> TRUE, url |-> url, text |-> text,
                      raw |-> RawScore(url, text),
                      score |-> calculate_relevance_score(url, text),
                      more_text |-> more,
                      more_score |-> calculate_relevance_score(url, more)]
  /\ UNCHANGED <<discvars, cachevars, routevars, concvars, ex>>

\* the loop over all_candidate_links: (final_url, link_text) of every candidate
RECURSIVE FinalLinks(_, _)
FinalLinks(candidates, outcomes) ==
  IF candidates = <<>> THEN <<>>
  ELSE LET c == Head(candidates)
           final_url == follow_terms_link(c.url, FollowRet(c.url, Head(outcomes)))
       IN  (IF final_url # <<>> THEN <<[url |-> final_url, text |-> c.text]>> ELSE <<>>)
           \o FinalLinks(Tail(candidates), Tail(outcomes))

\* find_terms_links(base_url, html_content) up to the list handed to the
\* selector, the fetch of every candidate being given by its outcome
Extract ==
  /\ ~ex.done
  /\ \E base \in ExtractBases, page \in SeqsUpTo(ExtractPool, MaxElems) :
       IF ExtractRaises(base, page)
       THEN ex' = [NoExtract EXCEPT !.done = TRUE, !.base = base, !.page = page,
                                    !.raised = TRUE]
       ELSE LET candidates == AllCandidateLinks(base, page)
            IN  \E outcomes \in [1..Len(candidates) -> FollowOutcomes] :
                  ex' = [done |-> TRUE, base |-> base, page |-> page, raised |-> FALSE,
                         candidates |-> candidates, outcomes |-> outcomes,
                         final_links |-> FinalLinks(candidates, outcomes)]
  /\ UNCHANGED <<discvars, cachevars, routevars, concvars, scored>>

NextExtract ==
  \/ Extract

SpecExtract == Init /\ [][NextExtract]_vars

NextScore ==
  \/ Score

SpecScore == Init /\ [][NextScore]_vars

(***************************************************************************)
(* Properties                                                              *)
(***************************************************************************)
Returned == call = "discover" /\ pc = "done"

\* the step is one attempt of the fetcher (one client.get)
IsAttempt == Len(f_log') = Len(f_log) + 1

RootSucceeded == root_last.kind = "response" /\ IsSuccess(root_last.status)

A_com == <<"a",".","c","o","m">>

\* C1: whatever way check_terms_exist returns, has_terms says whether a page
\* was found, and at most one page is found.
C1_HasTermsIffFound ==
  Returned =>
    /\ result.has_terms = (Len(result.found_terms_pages) > 0)
    /\ Len(result.found_terms_pages) \in {0, 1}

C1_Witness ==
  /\ Returned
  /\ result.has_terms
  /\ Len(result.found_terms_pages) = 1
  /\ Len(final_links) >= 2

\* C2: a failed root fetch makes check_terms_exist return at once: no page,
\* the failure message of the fetch (access denied for a 403), and neither
\* extraction nor a request for a candidate or a probe.
C2_RootFailureReturnsAtOnce ==
  (call = "discover" /\ root_ret.error # NoError) =>
    /\ pc = "done"
    /\ result.has_terms = FALSE
    /\ result.found_terms_pages = <<>>
    /\ result.error = root_ret.error
    /\ root_last.status = 403 =>
         result.error = [category |-> "access_denied", domain |-> A_com, status |-> 0]
    /\ ~extracted
    /\ all_candidate_links = <<>>
    /\ ~probed
    /\ n_follow_requests = 0
    /\ n_probe_requests = 0

C2_Witness ==
  /\ Returned
  /\ root_last.status = 403
  /\ result.error.category = "access_denied"
  /\ ~result.has_terms

\* C3 as stated: when the root fetch succeeded and the selection over the
\* extracted candidates is empty, the prober was run before the return.
C3_Original ==
  (Returned /\ extracted /\ select_most_relevant_urls(resolved_links) = <<>>) => probed

\* C3 as amended: the prober is run exactly when the extraction kept no
\* candidate at all; it then probes every path and its hits are scored and
\* selected before the return. Candidates that all score 0 do not start it.
C3_FallbackIffNoCandidate ==
  (Returned /\ extracted) =>
    /\ probed <=> (all_candidate_links = <<>>)
    /\ probed =>
         /\ n_probe_requests = Len(common_patterns)
         /\ result.found_terms_pages = select_most_relevant_urls(found_urls)
    /\ ~probed => n_probe_requests = 0

C3_Witness ==
  /\ Returned
  /\ probed
  /\ Len(found_urls) = 1
  /\ result.has_terms
  /\ result.found_terms_pages = <<found_urls[1].url>>

\* C4: a probe request is only issued when the extracted candidates gave no
\* url of positive score; when they gave one, it is returned without a probe.
C4_ProbeOnlyAsLastResort ==
  /\ n_probe_requests > 0 =>
       (extracted /\ select_most_relevant_urls(resolved_links) = <<>>)
  /\ (Returned /\ extracted /\ select_most_relevant_urls(resolved_links) # <<>>) =>
       /\ result.found_terms_pages = select_most_relevant_urls(resolved_links)
       /\ n_probe_requests = 0
       /\ ~probed

C4_Witness ==
  /\ Returned
  /\ extracted
  /\ resolved_links # <<>>
  /\ result.has_terms
  /\ n_probe_requests = 0

C6_Original ==
  f_state = "returned" => ((f_ret.html # <<>>) # (f_ret.error # NoError))

\* C6 as amended: a return of the fetcher never carries both a non-empty body
\* and a failure message, and it carries neither only when the last attempt
\* was a success response with an empty body.
C6_BodyOrFailure ==
  f_state = "returned" =>
    /\ ~(f_ret.html # <<>> /\ f_ret.error # NoError)
    /\ (f_ret.html = <<>> /\ f_ret.error = NoError) =>
         (f_last.kind = "response" /\ IsSuccess(f_last.status))
    /\ f_ret.html # <<>> => (f_last.kind = "response" /\ IsSuccess(f_last.status))

C6_Witness ==
  /\ f_state = "returned"
  /\ f_ret.html = <<>>
  /\ f_ret.error = NoError
  /\ f_ret.final_url # <<>>

\* what C7 asks of one attempt
C7_Step ==
  IsAttempt =>
    /\ Len(f_log') <= f_retries + 1
    /\ (f_last'.status = 429 \/ f_last'.kind = "timeout") =>
         IF attempt < f_retries
         THEN f_state' = "running" /\ attempt' = attempt + 1
         ELSE /\ f_state' = "returned"
              /\ f_ret'.html = <<>>
              /\ f_ret'.error.category =
                   (IF f_last'.status = 429 THEN "rate_limited" ELSE "timeout")
    /\ (f_last'.kind = "response" /\ f_last'.status = 200) =>
         /\ f_state' = "returned"
         /\ f_ret'.error = NoError
         /\ f_ret'.final_url # <<>>

\* C7: the fetcher issues at most retries + 1 requests and always returns; a
\* 429 or a timeout is followed by another attempt while one remains, a
\* success is returned at once, and a 429 or timeout on the last attempt
\* returns that failure.
C7_BoundedRetries ==
  /\ [](f_requests <= f_retries + 1)
  /\ [][C7_Step]_vars
  /\ (f_state = "running") ~> (f_state = "returned")

C7_Witness ==
  /\ f_state = "returned"
  /\ f_retries >= 1
  /\ f_requests = f_retries + 1
  /\ f_last.status = 429
  /\ f_log[1].kind = "timeout"
  /\ f_ret.error.category = "rate_limited"

\* the attempt ended in a way C8 speaks of
C8_NotRetried(l) ==
  \/ l.kind = "response" /\ 400 <= l.status /\ l.status < 600 /\ l.status \notin {403, 429}
  \/ l.kind \in {"connect", "ssl"}

C8_Category(l) ==
  IF l.kind = "connect" THEN "connection"
  ELSE IF l.kind = "ssl" THEN "ssl"
  ELSE IF l.status = 404 THEN "not_found"
  ELSE IF l.status = 503 THEN "service_unavailable"
  ELSE "server_error"

\* C8: an attempt that ends in a 4xx/5xx status other than 403 and 429, in a
\* connection error or in a TLS error returns the classified failure at
\* once, whatever number of attempts remains.
C8_OtherErrorsFailAtOnce ==
  [][(IsAttempt /\ C8_NotRetried(f_last')) =>
        /\ f_state' = "returned"
        /\ f_ret'.final_url = <<>>
        /\ f_ret'.html = <<>>
        /\ f_ret'.error.category = C8_Category(f_last')
        /\ f_ret'.error.domain = Lower(Netloc(f_url))
        /\ attempt' = attempt]_vars

C8_Witness ==
  /\ f_state = "returned"
  /\ f_last.status = 404
  /\ attempt < f_retries
  /\ f_ret.error.category = "not_found"

\* C9: a 403 before the last attempt is followed by another attempt, whose
\* success is returned as a success; a 403 on the last attempt returns the
\* access-denied failure.
C9_ForbiddenRetried ==
  [][IsAttempt =>
       /\ f_last'.status = 403 =>
            IF attempt < f_retries
            THEN f_state' = "running" /\ attempt' = attempt + 1 /\ f_ret' = NoRet
            ELSE /\ f_state' = "returned"
                 /\ f_ret'.html = <<>>
                 /\ f_ret'.error.category = "access_denied"
       /\ (f_last.status = 403 /\ f_last'.status = 200) =>
            /\ f_state' = "returned"
            /\ f_ret'.error = NoError
            /\ f_ret'.final_url # <<>>]_vars

C9_Witness ==
  /\ f_state = "returned"
  /\ Len(f_log) = 2
  /\ f_log[1].status = 403
  /\ f_log[2].status = 200
  /\ f_ret.error = NoError
  /\ f_ret.html # <<>>

\* score of the i-th link handed to the selector
LinkScore(i) == calculate_relevance_score(final_links[i].url, final_links[i].text)

\* C10: the selector drops the links of score 0 and returns the url of the
\* first link, in input order, among those of maximum score; a second call
\* on the same list returns the same url.
C10_SelectBest ==
  (Returned /\ extracted) =>
    LET positive == {i \in 1..Len(final_links) : LinkScore(i) > 0}
    IN  /\ IF positive = {}
           THEN result.found_terms_pages = <<>>
           ELSE \E i \in positive :
                  /\ \A j \in positive : LinkScore(j) <= LinkScore(i)
                  /\ \A j \in positive : j < i => LinkScore(j) < LinkScore(i)
                  /\ result.found_terms_pages = <<final_links[i].url>>
        /\ select_most_relevant_urls(final_links) = result.found_terms_pages

C10_Witness ==
  /\ Returned
  /\ Len(final_links) = 2
  /\ LinkScore(1) = LinkScore(2)
  /\ LinkScore(1) > 0
  /\ Netloc(final_links[1].url) = Netloc(BaseUrl)
  /\ Netloc(final_links[2].url) # Netloc(BaseUrl)
  /\ result.found_terms_pages = <<final_links[1].url>>

\* the url the prober requests for the i-th pattern
ProbedUrl(i) == urljoin(BaseUrl, common_patterns[i])

\* the step is one probe (one client.get of the prober)
IsProbeStep == Len(probe_requests') = Len(probe_requests) + 1

C12_AllPathsProbedInOrder ==
  probed =>
    /\ probe_requests = [i \in 1..(probe_idx - 1) |-> ProbedUrl(i)]
    /\ n_probe_requests = Len(probe_requests)
    /\ pc \in {"select", "done"} => Len(probe_requests) = Len(common_patterns)
    /\ Returned => \A i, j \in 1..Len(probe_requests) : i # j => probe_requests[i] # probe_requests[j]
    /\ Returned => result.error = NoError

C12_Witness ==
  /\ Returned
  /\ probed
  /\ Len(probe_hits) = 1
  /\ probe_hits[1].probed = ProbedUrl(Len(common_patterns))
  /\ probe_last.status = 200
  /\ result.has_terms

\* what C13 asks of one probe
C13_Step ==
  IsProbeStep =>
    IF probe_last'.kind = "response" /\ probe_last'.status = 200
    THEN /\ Len(found_urls') = Len(found_urls) + 1
         /\ SubSeq(found_urls', 1, Len(found_urls)) = found_urls
    ELSE found_urls' = found_urls

\* C13: the prober's list gets an entry for a path exactly when the probe of
\* that path ended with status 200; any other status and any exception adds
\* nothing.
C13_HitOnlyOn200 ==
  /\ [](/\ Len(found_urls) = Len(probe_hits)
        /\ \A i \in 1..Len(found_urls) : found_urls[i].url = probe_hits[i].final)
  /\ [][C13_Step]_vars

C13_Witness ==
  /\ pc = "probe"
  /\ probe_last.status = 204
  /\ Len(found_urls) = 1
  /\ Len(probe_hits) = 1

\* the last call was a save_analysis that wrote its document
SavedOk == last_op.op = "save" /\ last_op.ok

\* the step is one call of save_analysis
IsSave == n_saves' = n_saves + 1

\* the documents of the collection before the last save_analysis wrote
StoreBeforeSave == (store \ last_op.doc) \cup last_op.prev

\* C14: after any sequence of saves, deletes and sweeps the collection holds
\* at most one document per url; a save for a url that has a document,
\* expired or not, replaces that document and adds none.
C14_OneEntryPerUrl ==
  /\ [](\A d1, d2 \in store : d1.url = d2.url => d1 = d2)
  /\ [][(IsSave /\ last_op'.fault = "none" /\ FindOne(store, last_op'.url) # {}) =>
          /\ last_op'.ok
          /\ Cardinality(store') = Cardinality(store)
          /\ FindOne(store', last_op'.url) = last_op'.doc
          /\ store' \ last_op'.doc = store \ FindOne(store, last_op'.url)]_vars

C14_Witness ==
  /\ SavedOk
  /\ \E p \in last_op.prev : p.expires_at < now
  /\ Cardinality(FindOne(store, last_op.url)) = 1
  /\ Cardinality(store) = 2

\* both requests went through save_analysis for the same url
BothSaved(r1, r2) ==
  /\ r1 # r2
  /\ req[r1].pc = "done" /\ req[r2].pc = "done"
  /\ req[r1].url = req[r2].url
  /\ req[r1].saved /\ req[r2].saved

\* C15: two analyze-terms requests for one url that both miss the cache and
\* both save, their reads of the highest id and their replace_one calls in
\* any order, leave exactly one document for that url.
C15_ConcurrentSameUrlOneEntry ==
  /\ \A d1, d2 \in store : d1.url = d2.url => d1 = d2
  /\ \A r1, r2 \in Reqs :
       BothSaved(r1, r2) => Cardinality(FindOne(store, req[r1].url)) = 1

C15_Witness ==
  /\ BothSaved(1, 2)
  /\ req[1].next_id = req[2].next_id
  /\ Cardinality(FindOne(store, req[1].url)) = 1
  /\ Len(id_history) >= 2

\* C16 as stated: a save for a url that has a document keeps the analysis_id
\* the document had and sets created_at and expires_at from the current time.
C16_Original ==
  (SavedOk /\ last_op.prev # {}) =>
    \A d \in last_op.doc, p \in last_op.prev :
      /\ d.analysis_id = p.analysis_id
      /\ d.created_at = now
      /\ d.expires_at = now + TtlDays

\* C16 as amended: a save for a url that has a document replaces it by a
\* document with a new analysis_id, the highest id of the collection plus
\* one and so greater than the id the url had, and with created_at and
\* expires_at set from the current time.
C16_ReupsertNewIdNewDates ==
  (SavedOk /\ last_op.prev # {}) =>
    \A d \in last_op.doc, p \in last_op.prev :
      /\ d.analysis_id > p.analysis_id
      /\ d.analysis_id = SetMax({b.analysis_id : b \in StoreBeforeSave}) + 1
      /\ d.created_at = now
      /\ d.expires_at = now + TtlDays
      /\ d \in store
      /\ FindOne(store, last_op.url) = {d}

C16_Witness ==
  /\ SavedOk
  /\ \E d \in last_op.doc, p \in last_op.prev :
       /\ d.analysis_id > p.analysis_id
       /\ d.created_at > p.created_at
       /\ d.expires_at > p.expires_at
       /\ p \notin store

\* C17: a save that inserts a new url gives it analysis_id 1 when the
\* collection is empty and otherwise the highest id of the collection plus 1.
C17_NewUrlGetsMaxPlusOne ==
  (SavedOk /\ last_op.prev = {}) =>
    \A d \in last_op.doc :
      IF StoreBeforeSave = {}
      THEN d.analysis_id = 1
      ELSE /\ \A b \in StoreBeforeSave : b.analysis_id < d.analysis_id
           /\ \E b \in StoreBeforeSave : b.analysis_id = d.analysis_id - 1

C17_Witness ==
  /\ SavedOk
  /\ last_op.prev = {}
  /\ Cardinality(store) = 2
  /\ \E d \in last_op.doc : d.analysis_id = 3

\* C18 as stated: the ids written over the life of the collection are never
\* repeated and each is one more than the id written before it.
C18_NeverReusedGapFree ==
  /\ \A i, j \in 1..Len(id_history) : i # j => id_history[i] # id_history[j]
  /\ \A i \in 2..Len(id_history) : id_history[i] = id_history[i - 1] + 1

\* C19: get_cached_analysis returns a document only when its expires_at is
\* strictly later than the time of the call, returns None for a document
\* whose expires_at is the current time or earlier, and leaves the
\* collection as it was.
C19_ValidOnlyIfStrictlyFuture ==
  /\ [](last_op.op = "get_valid" =>
          /\ \A d \in last_op.doc :
               d \in store /\ d.url = last_op.url /\ d.expires_at > now
          /\ last_op.ok <=> last_op.doc # {}
          /\ (\A d \in FindOne(store, last_op.url) : d.expires_at <= now) => ~last_op.ok
          /\ (last_op.fault = "none" /\ \E d \in FindOne(store, last_op.url) : d.expires_at > now)
               => last_op.ok)
  /\ [][last_op'.op = "get_valid" => store' = store]_vars

C19_Witness ==
  /\ last_op.op = "get_valid"
  /\ last_op.fault = "none"
  /\ ~last_op.ok
  /\ \E d \in FindOne(store, last_op.url) : d.expires_at = now

\* C20: for a document whose expires_at is in the past get_cache_info
\* reports cached and expired with the document's created_at, expires_at and
\* analysis_id while get_cached_analysis returns None; for a url without a
\* document get_cache_info reports not cached.
C20_ExpiredReportedNotReturned ==
  /\ \A u \in CacheUrls :
       /\ \A d \in FindOne(store, u) :
            d.expires_at < now =>
              /\ get_cached_analysis(store, u, now, "none") = {}
              /\ get_cache_info(store, u, now, "none") =
                   [cached |-> TRUE, expired |-> TRUE, doc |-> {d}]
       /\ FindOne(store, u) = {} => ~get_cache_info(store, u, now, "none").cached
  /\ (last_op.op = "get_status" /\ last_op.fault = "none") =>
       /\ last_op.cached <=> FindOne(store, last_op.url) # {}
       /\ last_op.doc = FindOne(store, last_op.url)
       /\ (\E d \in FindOne(store, last_op.url) : d.expires_at < now) => last_op.expired
  /\ (last_op.op = "get_valid" /\ \E d \in FindOne(store, last_op.url) : d.expires_at < now)
       => ~last_op.ok

C20_Witness ==
  /\ last_op.op = "get_status"
  /\ last_op.cached
  /\ last_op.expired
  /\ \E d \in last_op.doc : d \in store /\ d.expires_at < now /\ d.analysis_id = 2

\* C21 as stated: get_cache_stats called right after clear_expired_cache, at
\* the time of the sweep, reports no expired entry and total = valid, also
\* for entries whose expires_at is the current time, and the sweep returns
\* the number of documents it removed.
C21_SweepThenStatsClean ==
  /\ (last_op.op = "stats" /\ last_op.fault = "none" /\ last_op.after = "sweep") =>
       /\ last_op.n_expired = 0
       /\ last_op.total = last_op.valid
  /\ (last_op.op = "sweep" /\ last_op.fault = "none") =>
       last_op.n = Cardinality(last_op.prev)

\* the entries of every url but u
Others(st, u) == {d \in st : d.url # u}

\* C22: DELETE /analysis/{url} removes the document of the url when there is
\* one, expired or not, and reports the deletion; reports not found when
\* there is none; leaves the documents of every other url as they were;
\* afterwards get_cache_info reports the url as not cached.
C22_DeleteRemovesOnlyThatUrl ==
  /\ []((last_op.op = "delete" /\ last_op.fault = "none") =>
          /\ last_op.ok <=> last_op.prev # {}
          /\ last_op.status = IF last_op.prev # {} THEN 200 ELSE 404
          /\ last_op.n = Cardinality(last_op.prev)
          /\ FindOne(store, last_op.url) = {}
          /\ ~get_cache_info(store, last_op.url, now, "none").cached)
  /\ [][last_op'.op = "delete" =>
          /\ Others(store', last_op'.url) = Others(store, last_op'.url)
          /\ store' \subseteq store]_vars

C22_Witness ==
  /\ last_op.op = "delete"
  /\ last_op.ok
  /\ \E p \in last_op.prev : p.expires_at < now /\ p \notin store
  /\ Others(store, last_op.url) # {}

\* C23: when the collection is unavailable or a call on it raises,
\* get_cached_analysis returns None, save_analysis False, clear_expired_cache
\* 0, get_cache_info not cached and get_cache_stats an error value, and the
\* documents are left as they were.
C23_FaultsContained ==
  /\ [](last_op.fault # "none" =>
          /\ last_op.op = "get_valid" => ~last_op.ok /\ last_op.doc = {}
          /\ last_op.op = "save" => ~last_op.ok
          /\ last_op.op = "sweep" => last_op.n = 0
          /\ last_op.op = "get_status" => ~last_op.cached
          /\ last_op.op = "stats" => ~last_op.ok)
  /\ [][(last_op'.fault # "none"
          /\ last_op'.op \in {"get_valid", "save", "sweep", "get_status", "stats"})
          => store' = store]_vars

C23_Witness ==
  /\ last_op.op = "sweep"
  /\ last_op.fault = "throws"
  /\ last_op.n = 0
  /\ \E d \in store : d.expires_at < now

SeqToSet(q) == {q[i] : i \in 1..Len(q)}

\* how many patterns of the set S occur in s
CountIn(S, s) == Cardinality({p \in S : Contains(p, s)})

\* how many times p occurs in s
Occurrences(p, s) ==
  Cardinality({i \in 1..(Len(s) - Len(p) + 1) : SubSeq(s, i, i + Len(p) - 1) = p})

RECURSIVE OccurrenceSum(_, _)
OccurrenceSum(ps, s) ==
  IF ps = <<>> THEN 0 ELSE Occurrences(Head(ps), s) + OccurrenceSum(Tail(ps), s)

HighWords == SeqToSet(high_priority \o french_high)
MediumWords == SeqToSet(medium_priority \o french_medium)
PenaltyWords == SeqToSet(penalty_patterns)

\* the parts of the score of the last call, from its lower-cased arguments
ScoredUrl == Lower(scored.url)
ScoredText == Lower(scored.text)
HighPart == 100 * CountIn(HighWords, ScoredText) + 80 * CountIn(HighWords, ScoredUrl)
MediumPart ==
  MatchSum(medium_priority \o french_medium, ScoredText, 50)
  + MatchSum(medium_priority \o french_medium, ScoredUrl, 30)
PathPart ==
  (IF Contains(P_terms, ScoredUrl) \/ Contains(P_privacy, ScoredUrl) THEN 40 ELSE 0)
  + (IF Contains(P_legal, ScoredUrl) \/ Contains(P_policy, ScoredUrl) THEN 30 ELSE 0)
  + (IF Contains(P_cookies, ScoredUrl) THEN 25 ELSE 0)
FooterPart == IF CountIn(SeqToSet(footer_indicators), ScoredText) > 0 THEN 10 ELSE 0
PenaltyOnce ==
  20 * Cardinality({k \in PenaltyWords : Contains(k, ScoredText) \/ Contains(k, ScoredUrl)})

\* C24: the score is never negative: it is max(0, raw sum), so a candidate
\* that matches penalty keywords only scores 0 and is not selected.
C24_ScoreNeverNegative ==
  scored.done =>
    /\ scored.score >= 0
    /\ scored.score = IF scored.raw > 0 THEN scored.raw ELSE 0
    /\ (HighPart + MediumPart + PathPart + FooterPart = 0 /\ PenaltyOnce > 0) =>
         /\ scored.raw < 0
         /\ scored.score = 0
    /\ scored.score = 0 =>
         select_most_relevant_urls(<<[url |-> scored.url, text |-> scored.text]>>) = <<>>

C24_Witness ==
  /\ scored.done
  /\ scored.raw < 0
  /\ scored.score = 0
  /\ PenaltyOnce > 0

\* C25: the score of an anchor text with one more high priority phrase, added
\* at either end as words of its own, is at least the score of the text.
C25_MonotonicInHighPhrases ==
  scored.done => scored.more_score >= scored.score

C25_Witness ==
  /\ scored.done
  /\ scored.score > 0
  /\ scored.more_score >= scored.score + 100
  /\ PenaltyOnce > 0

\* C26 as stated: each medium priority word that matches adds 50 when it is
\* in the anchor text and 30 when it is in the url, once per word and field.
C26_MediumWordOncePerField ==
  scored.done =>
    scored.raw = HighPart + PathPart + FooterPart - PenaltyOnce
                 + 50 * CountIn(MediumWords, ScoredText)
                 + 30 * CountIn(MediumWords, ScoredUrl)

\* C27 as stated: every occurrence of a penalty keyword, in the anchor text
\* and in the url, takes 20 off the raw score.
C27_Original ==
  scored.done =>
    scored.raw = HighPart + MediumPart + PathPart + FooterPart
                 - 20 * (OccurrenceSum(penalty_patterns, ScoredText)
                         + OccurrenceSum(penalty_patterns, ScoredUrl))

\* C27 as amended: a penalty keyword that occurs in the anchor text or in the
\* url takes 20 off the raw score once, however often it occurs and also
\* when it is in both.
C27_PenaltyOncePerKeyword ==
  scored.done =>
    scored.raw = HighPart + MediumPart + PathPart + FooterPart - PenaltyOnce

C27_Witness ==
  /\ scored.done
  /\ \E k \in PenaltyWords : Contains(k, ScoredText) /\ Contains(k, ScoredUrl)
  /\ OccurrenceSum(penalty_patterns, ScoredText) = 2
  /\ PenaltyOnce = 20

\* the anchors with a non-empty href of the page given to the extraction loop
ExAnchors ==
  {ex.page[i] : i \in {j \in 1..Len(ex.page) :
                         ex.page[j].tag = "a" /\ ex.page[j].has_href /\ ex.page[j].href # <<>>}}

\* the anchor was kept as a candidate
ExIsCandidate(e) ==
  \E i \in 1..Len(ex.candidates) :
    ex.candidates[i] = [url |-> urljoin(ex.base, e.href), text |-> Strip(e.text)]

\* the disclosure vocabulary C28 names
ClaimedVocabulary ==
  { <<"t", "e", "r", "m", "s">>,
    <<"c", "o", "n", "d", "i", "t", "i", "o", "n", "s">>,
    <<"p", "r", "i", "v", "a", "c", "y">>,
    <<"p", "o", "l", "i", "c", "y">>,
    <<"l", "e", "g", "a", "l">>,
    <<"a", "g", "r", "e", "e", "m", "e", "n", "t">>,
    <<"c", "o", "o", "k", "i", "e", "s">>,
    <<"c", "g", "u">>,
    <<"c", "g", "v">>,
    <<"p", "o", "l", "i", "t", "i", "q", "u", "e">>,
    <<"m", "e", "n", "t", "i", "o", "n", "s">>,
    <<"d", "o", "n", "n", "é", "e", "s">>,
    <<"c", "o", "n", "f", "i", "d", "e", "n", "t", "i", "a", "l", "i", "t", "é">>,
    <<"p", "r", "o", "t", "e", "c", "t", "i", "o", "n">>,
    <<"a", "c", "c", "o", "r", "d">>,
    <<"u", "t", "i", "l", "i", "s", "a", "t", "i", "o", "n">>,
    <<"j", "u", "r", "i", "d", "i", "q", "u", "e">> }

ExInternal(c) == Lower(Netloc(c.url)) = Lower(Netloc(ex.base))

\* the candidates in the order of their anchors in the page
ExPageOrder ==
  LET kept == SelectSeq(ex.page, LAMBDA e : e \in ExAnchors /\ ExIsCandidate(e))
  IN  [i \in 1..Len(kept) |-> [url |-> urljoin(ex.base, kept[i].href), text |-> Strip(kept[i].text)]]

\* C29: in the list handed to the scorer every same-domain candidate comes
\* before every cross-domain one, each group is in page order, and resolving
\* the candidates does not reorder them.
C29_InternalFirstInPageOrder ==
  (ex.done /\ ~ex.raised) =>
    /\ \A i, j \in 1..Len(ex.candidates) :
         (i < j /\ ExInternal(ex.candidates[j])) => ExInternal(ex.candidates[i])
    /\ SelectSeq(ex.candidates, ExInternal) = SelectSeq(ExPageOrder, ExInternal)
    /\ SelectSeq(ex.candidates, LAMBDA c : ~ExInternal(c)) = SelectSeq(ExPageOrder, LAMBDA c : ~ExInternal(c))
    /\ Len(ex.final_links) = Len(ex.candidates)
    /\ \A i \in 1..Len(ex.candidates) :
         /\ ex.final_links[i].text = ex.candidates[i].text
         /\ ex.final_links[i].url \in {ex.candidates[i].url, LoginUrl}

C29_Witness ==
  /\ ex.done
  /\ Len(ex.candidates) = 2
  /\ ExInternal(ex.candidates[1])
  /\ ~ExInternal(ex.candidates[2])
  /\ ExPageOrder = <<ex.candidates[2], ex.candidates[1]>>
  /\ ex.final_links[1].url = LoginUrl
  /\ ex.final_links[2].url = ex.candidates[2].url

\* the loop over the candidates takes the return of one resolving fetch
IsFollowReturn == pc = "follow" /\ follow_idx' = follow_idx + 1

\* what the loop must append for the candidate it has just resolved
ResolvedEntry ==
  LET c == all_candidate_links[follow_idx]
  IN  [url |-> IF f_ret.final_url # <<>> THEN f_ret.final_url ELSE c.url, text |-> c.text]

\* C30: resolving never drops a candidate: each return of a resolving fetch
\* appends one entry, carrying the final url when the fetch succeeded and the
\* candidate's own url when it failed (whatever the failure, after the
\* fetch's retries), so the resolved list is as long as the extracted one
\* and keeps each candidate's text.
C30_ResolutionNeverDrops ==
  /\ []((extracted /\ pc \in {"probe", "select", "done"}) =>
          /\ Len(resolved_links) = Len(all_candidate_links)
          /\ \A i \in 1..Len(resolved_links) :
               resolved_links[i].text = all_candidate_links[i].text)
  /\ []((extracted /\ pc = "follow") => Len(final_links) = follow_idx - 1)
  /\ [][IsFollowReturn => final_links' = Append(final_links, ResolvedEntry)]_vars

C30_Witness ==
  /\ extracted
  /\ pc = "select"
  /\ Len(all_candidate_links) = 2
  /\ Len(resolved_links) = 2
  /\ n_follow_failed = 1
  /\ n_follow_requests > 2
  /\ \E i, j \in 1..2 :
       /\ resolved_links[i].url = all_candidate_links[i].url
       /\ resolved_links[j].url # all_candidate_links[j].url

(***************************************************************************)
(* Properties of the routes                                                *)
(***************************************************************************)
\* an analyze-terms request arrives
IsAnalyzeStart == rt.req.pc = "idle" /\ rt'.req.pc # "idle"

\* the response of an analyze-terms request is built
IsRespond == rt.req.pc = "respond" /\ rt'.req.pc = "done"

\* the collection holds an entry of the url that has not expired
HasValidEntry(st, u, t) == \E d \in FindOne(st, u) : d.expires_at > t

\* the AI service is entered
IsAiCall == rt'.req.n_by_url + rt'.req.n_by_text > rt.req.n_by_url + rt.req.n_by_text

\* C31: a request for a url whose entry is valid, the collection serving the
\* read, is answered from the cache at once: check_terms_exist is not called,
\* no entry point of the AI service is called, save_analysis is not called,
\* and the collection is left as it was until the response is sent.
C31_ValidEntryServedFromCache ==
  /\ [](rt.req.from_cache =>
          /\ rt.req.pc = "done" /\ rt.req.status = 200
          /\ rt.req.n_discover = 0 /\ rt.req.n_by_url = 0 /\ rt.req.n_by_text = 0
          /\ ~rt.req.saving /\ ~rt.req.saved)
  /\ [][(IsAnalyzeStart /\ HasValidEntry(store, rt'.req.url, now) /\ ~rt'.req.read_failed)
          => (rt'.req.from_cache /\ store' = store /\ id_history' = id_history)]_vars
  /\ [][rt.req.from_cache => (store' = store /\ rt'.req \in {rt.req, BlankRoute})]_vars

C31_Witness ==
  /\ rt.req.from_cache
  /\ rt.req.pc = "done"
  /\ n_reqs = 3
  /\ HasValidEntry(store, rt.req.url, now)
  /\ \E d \in store : d.url # rt.req.url

\* C32: when the entry of the url has expired, the discovery found a page,
\* the AI returned an analysis and the collection serves the write, the
\* response is saved: the url has one entry, a new one, created now and
\* expiring later, the other entries are untouched, and get_cached_analysis
\* returns it, so that a later request for the url, the entry still valid,
\* is answered from the cache.
C32_ExpiredEntryRefreshed ==
  /\ [][(IsRespond /\ rt.req.was_expired /\ rt.req.analysis # "absent" /\ ~rt'.req.write_failed)
          => LET u == rt.req.url
             IN  /\ rt'.req.saved
                 /\ u \in rt'.refreshed
                 /\ Cardinality(FindOne(store', u)) = 1
                 /\ \A d \in FindOne(store', u) :
                      d \notin store /\ d.created_at = now /\ d.expires_at > now
                 /\ get_cached_analysis(store', u, now, "none") = FindOne(store', u)
                 /\ Others(store', u) = Others(store, u)]_vars
  /\ [][(IsAnalyzeStart /\ rt'.req.url \in rt.refreshed
         /\ HasValidEntry(store, rt'.req.url, now) /\ ~rt'.req.read_failed)
          => (rt'.req.from_cache /\ rt'.req.n_by_url = 0 /\ rt'.req.n_by_text = 0)]_vars

C32_Witness ==
  /\ rt.req.from_cache
  /\ rt.req.url \in rt.refreshed
  /\ n_reqs = 3
  /\ now > TtlDays
  /\ \E d \in FindOne(store, rt.req.url) : d.created_at > TtlDays /\ d.analysis_id = 2

\* C34: the AI service is entered, and save_analysis called, only in a
\* request whose discovery returned a page without an error; a discovery that
\* reports an error ends the request with 400, one that found no page with
\* 404, and in both cases no AI entry point is called and the collection is
\* left as it was.
C34_AiOnlyAfterTermsFound ==
  /\ []((rt.req.n_by_url > 0 \/ rt.req.n_by_text > 0 \/ rt.req.saving) =>
          /\ rt.req.n_discover = 1
          /\ rt.req.terms_result.error = NoError
          /\ rt.req.terms_result.has_terms
          /\ rt.req.terms_result.found_terms_pages # <<>>)
  /\ []((rt.req.n_discover = 1 /\ rt.req.pc # "discover") =>
          /\ rt.req.terms_result.error # NoError => rt.req.status = 400 /\ rt.req.pc = "done"
          /\ (rt.req.terms_result.error = NoError /\ rt.req.terms_result.found_terms_pages = <<>>)
               => rt.req.status = 404 /\ rt.req.pc = "done")
  /\ [](rt.req.status \in {400, 404} =>
          rt.req.n_by_url = 0 /\ rt.req.n_by_text = 0 /\ ~rt.req.saving)
  /\ [][(rt.req.status \in {400, 404} \/ rt'.req.status \in {400, 404})
          => store' = store]_vars

C34_Witness ==
  /\ rt.req.pc = "done"
  /\ rt.req.status = 404
  /\ rt.req.n_discover = 1
  /\ ~rt.req.terms_result.has_terms
  /\ rt.req.was_expired

\* C35: in one request analyze_terms_by_url is entered at most once and
\* analyze_terms_by_text at most once, the latter only after the former
\* returned None, and no entry point is entered again once one returned None.
C35_AiNeverRetried ==
  /\ [](/\ rt.req.n_by_url <= 1
        /\ rt.req.n_by_text <= 1
        /\ rt.req.n_by_text = 1 => (rt.req.n_by_url = 1 /\ rt.req.by_url = "absent"))
  /\ [][IsAiCall =>
          \/ /\ rt.req.pc = "by_url"
             /\ rt.req.n_by_url = 0 /\ rt.req.n_by_text = 0
             /\ rt'.req.n_by_url = 1 /\ rt'.req.n_by_text = 0
          \/ /\ rt.req.pc = "by_text"
             /\ rt.req.by_url = "absent"
             /\ rt.req.n_by_url = 1 /\ rt.req.n_by_text = 0
             /\ rt'.req.n_by_url = 1 /\ rt'.req.n_by_text = 1]_vars
  /\ [][(rt.req.by_text # "none" /\ rt'.req.pc # "idle") => ~IsAiCall]_vars

C35_Witness ==
  /\ rt.req.pc = "done"
  /\ rt.req.n_by_url = 1
  /\ rt.req.n_by_text = 1
  /\ rt.req.by_url = "absent"
  /\ rt.req.by_text = "absent"

\* C39 as stated: in every response built by analyze-terms the error is set
\* exactly when analysis_method is "failed", the method is "url" or "text"
\* only when that AI call returned a result, and a response handed to
\* save_analysis carries no error.
C39_ResponseSelfConsistent ==
  (rt.req.pc = "done" /\ rt.req.status = 200 /\ ~rt.req.from_cache) =>
    /\ rt.req.error <=> rt.req.analysis_method = "failed"
    /\ rt.req.analysis_method = "url" => rt.req.by_url \in {"structured", "raw"}
    /\ rt.req.analysis_method = "text" => rt.req.by_text \in {"structured", "raw"}
    /\ rt.req.saving => ~rt.req.error

\* C33 as stated: GET /analysis/{url} for a url whose entry has expired
\* answers with the stored analysis, not null, and expired = true.
C33_ExpiredStillRetrievable ==
  (last_op.op = "get_analysis" /\ last_op.fault = "none"
   /\ \E d \in FindOne(store, last_op.url) : d.expires_at < now) =>
    /\ last_op.status = 200
    /\ last_op.expired
    /\ last_op.analysis # {}
    /\ last_op.analysis = FindOne(store, last_op.url)

\* request r ends its replace_one
IsReplace(r) == req[r].pc = "replace" /\ req'[r].pc = "done"

\* C36: no two documents of the collection carry the same analysis_id,
\* however the reads of the highest id and the replace_one calls of requests
\* for different urls interleave, and a save that reports success has left
\* its document, with the id it read, in the collection.
C36_UniqueIdsUnderConcurrency ==
  /\ [](\A d1, d2 \in store : d1.analysis_id = d2.analysis_id => d1 = d2)
  /\ [][\A r \in Reqs :
          (IsReplace(r) /\ req'[r].saved) =>
            \E d \in store' : /\ d.url = req[r].url
                              /\ d.analysis_id = req[r].next_id
                              /\ FindOne(store', req[r].url) = {d}]_vars

C36_Witness ==
  /\ req[1].pc = "done" /\ req[2].pc = "done"
  /\ req[1].url # req[2].url
  /\ req[1].next_id = req[2].next_id
  /\ req[1].saved /\ ~req[2].saved
  /\ Cardinality(store) = 2

\* C37 as stated: the statistics get_cache_stats returns satisfy
\* 0 <= valid <= total and expired = total - valid >= 0, whatever other
\* requests write between its two count_documents queries.
C37_StatsWithinBounds ==
  stats_call.pc = "returned" =>
    /\ 0 <= stats_call.valid
    /\ stats_call.valid <= stats_call.total
    /\ stats_call.expired = stats_call.total - stats_call.valid
    /\ stats_call.expired >= 0

\* C38 as stated: at every instant, the instant equal to expires_at
\* included, get_cached_analysis returns the entry of a url exactly when
\* get_cache_info reports it cached and not expired, and clear_expired_cache
\* removes exactly the entries get_cache_info reports as expired.
C38_StatusAndValidAgree ==
  /\ \A u \in CacheUrls :
       LET info == get_cache_info(store, u, now, "none")
       IN  get_cached_analysis(store, u, now, "none") # {} <=> (info.cached /\ ~info.expired)
  /\ store \ clear_expired_cache(store, now, "none").store =
       {d \in store : get_cache_info(store, d.url, now, "none").expired}

(***************************************************************************)
(* Properties of the calls in flight together                              *)
(***************************************************************************)
\* the frame a call has when it runs alone and receives the responses of log
RECURSIVE Replay(_, _)
Replay(f, log) ==
  IF log = <<>> THEN f ELSE Replay(StepCall(f, Head(log), f.attempt), Tail(log))

RunAlone(log) == Replay([NoFrame EXCEPT !.pc = "root"], log)

====
